---------------------------- MODULE Spec2Model ----------------------------
(***************************************************************************)
(* Encrypted connection store of the dabba desktop client                  *)
(* (src-tauri/src/storage, src-tauri/src/commands/connection.rs).          *)
(*                                                                         *)
(* Conventions of the model                                                *)
(*   - a Rust String that the code compares or encodes (name, password) is *)
(*     its sequence of UTF-8 bytes; the sample profiles are ASCII. Strings *)
(*     that are only copied (id, color, host, username, database) are      *)
(*     TLA+ strings.                                                       *)
(*   - Option<T> is a sequence of length 0 (None / SQL NULL) or 1 (Some).  *)
(*   - Result<T, E> is a record [ok, val, err]; the val of a store call is *)
(*     a sequence of connections (empty for (), None and errors).          *)
(*   - the connections table is the sequence of its rows in rowid order.   *)
(*                                                                         *)
(* Specifications                                                          *)
(*   Spec           the commands on a new store, with a reliable engine    *)
(*   SpecFaulty     Spec with an engine that may fail the INSERT of a save *)
(*   SpecOpened     the reading commands on a store opened on a file that  *)
(*                  exists, written under either passphrase, one row of    *)
(*                  which may hold columns no save wrote                   *)
(*   SpecCipher     encrypt, decrypt and the storage encoding called       *)
(*                  directly                                               *)
(*   SpecKdf        derive_key_from_password called directly               *)
(*   SpecKdfHasher  SpecKdf with the hasher's output length left open      *)
(*   SpecLifecycle  the store opened, used, dropped and opened again on    *)
(*                  one file, under either passphrase                      *)
(*   SpecStoredPort SpecOpened on a file one row of which holds a port     *)
(*                  outside 0..65535                                       *)
(*   SpecApp        the commands of the store next to test_connection and  *)
(*                  the commands on the remote server                      *)
(*   SpecPaging     the paginated reads of a connected adapter, in a build *)
(*                  with or without overflow checks                        *)
(***************************************************************************)
EXTENDS Integers, Sequences, FiniteSets, TLC

VARIABLES
    table,           \* rows of the connections table, in rowid order
    encryption_key,  \* ConnectionStore.encryption_key
    rng,             \* number of nonces drawn from OsRng so far
    now,             \* the persistence engine's clock, strftime('%s','now')
    mutex,           \* AppState.connection_store: 0 when free, else the holder
    pc,              \* per command invocation: "idle", "locked", "returned"
    request,         \* per command invocation: the command and its argument
    response,        \* per command invocation: the store call's Result
    lastSave,        \* history: per id, the profile of the last save not deleted since
    serialStore,     \* history: profiles after the commands run one at a time in lock order
    serialResp,      \* history: per invocation, the result of that serial run
    test_plaintext,  \* encryption.rs called directly: the text handed to encrypt
    test_key,        \* encryption.rs called directly: the key handed to encrypt
    encrypted,       \* the Results of the encrypt calls so far, in order
    decrypted,       \* the last decrypt call: what it was handed and its Result
    derived,         \* the derive_key_from_password calls so far, with their Results
    has_table,       \* the file's sqlite_master lists the connections table
    store_open,      \* a ConnectionStore instance exists (new returned Ok, not dropped)
    opened_with,     \* history: the passphrases of the stores opened on the file so far
    remote,          \* per command invocation: whether it is a remote command, whether
                     \* that command needs the profile's database, the profile it connects with
    paging           \* a paginated read: its page, page_size and the LIMIT/OFFSET it sends

\* The variables of the direct calls of storage/encryption.rs.
testVars == <<test_plaintext, test_key, encrypted, decrypted, derived>>

vars == <<table, encryption_key, rng, now, mutex, pc, request, response,
          lastSave, serialStore, serialResp,
          test_plaintext, test_key, encrypted, decrypted, derived,
          has_table, store_open, opened_with, remote, paging>>

\* The file's schema, the store's lifetime, and the commands on the remote server.
appVars == <<has_table, store_open, opened_with, remote, paging>>

----------------------------------------------------------------------------
(* Bounds of the model *)

\* Number of sample profiles the commands may save.
NumConnections == 3
\* Cap on the number of OsRng draws, i.e. on the number of save calls.
MaxDraws == 3
\* The engine clock runs over 0..MaxTime.
MaxTime == 1
\* Number of concurrent command invocations.
NumProcs == 2
\* Cap on the number of derive_key_from_password calls of a run.
MaxDerivations == 2

(* Program constants *)
NONCE_SIZE == 12
KEY_SIZE == 32
MIN_SALT_SIZE == 16
TAG_SIZE == 16
U16_MAX == 65535
\* AES-GCM refuses a plaintext of 2^36 - 31 bytes or more, about 64 GiB.
GiB == 1073741824
AEAD_P_MAX_GIB == 64
\* password-hash: Salt::MAX_LENGTH, the characters a SaltString holds.
SALT_MAX_LENGTH == 64
\* argon2: Params::DEFAULT_OUTPUT_LEN and MIN_SALT_LEN.
ARGON2_DEFAULT_OUTPUT_LEN == 32
ARGON2_MIN_SALT_LEN == 8

Procs == 1..NumProcs

None == <<>>
Some(x) == <<x>>

----------------------------------------------------------------------------
(* Generic helpers *)

Min(a, b) == IF a < b THEN a ELSE b

Range(s) == {s[i] : i \in DOMAIN s}

\* Byte-wise (memcmp) order of two byte strings: SQLite's BINARY collation.
RECURSIVE BytesLeq(_, _)
BytesLeq(a, b) ==
    IF a = <<>> THEN TRUE
    ELSE IF b = <<>> THEN FALSE
    ELSE IF Head(a) < Head(b) THEN TRUE
    ELSE IF Head(a) > Head(b) THEN FALSE
    ELSE BytesLeq(Tail(a), Tail(b))

Ok(v) == [ok |-> TRUE, val |-> v, err |-> ""]
Err(kind) == [ok |-> FALSE, val |-> <<>>, err |-> kind]

----------------------------------------------------------------------------
(* storage/encryption.rs *)

\* AES-256 in counter mode, abstracted: byte i of the key stream for a key and nonce.
KeyStream(key, nonce, i) ==
    (key[((i - 1) % KEY_SIZE) + 1] + 7 * nonce[((i - 1) % NONCE_SIZE) + 1] + 31 * i) % 256

RECURSIVE WeightedSum(_, _, _)
WeightedSum(bytes, i, w) ==
    IF i > Len(bytes) THEN 0
    ELSE (w + i) * bytes[i] + WeightedSum(bytes, i + 1, w)

\* Mutant of AuthTag: a tag over the key and nonce that leaves the ciphertext out.
AuthTagWithoutData(key, nonce, ct) ==
    [j \in 1..TAG_SIZE |->
        (key[j] + 3 * key[j + TAG_SIZE] + 5 * nonce[((j - 1) % NONCE_SIZE) + 1]
         + 17 * j) % 256]

\* GHASH, abstracted: the 16-byte authentication tag of a ciphertext under a key and nonce.
AuthTag(key, nonce, ct) ==
    [j \in 1..TAG_SIZE |->
        (key[j] + 3 * key[j + TAG_SIZE] + 5 * nonce[((j - 1) % NONCE_SIZE) + 1]
         + WeightedSum(ct, 1, j) + Len(ct) + 17 * j) % 256]

\* Mutant of OsRngNonce: a generator that hands out the same bytes on every draw.
OsRngRepeats(n) == [i \in 1..NONCE_SIZE |-> (i * 11) % 256]

\* The n-th value OsRng.fill_bytes hands out: draws are pairwise distinct.
OsRngNonce(n) == [i \in 1..NONCE_SIZE |-> (n * 37 + i * 11) % 256]

\* cipher.encrypt(nonce, plaintext): ciphertext followed by the tag.
AeadEncrypt(key, nonce, plaintext) ==
    LET ct == [i \in 1..Len(plaintext) |->
                  (plaintext[i] + KeyStream(key, nonce, i)) % 256]
    IN  IF (Len(plaintext) + 31) \div GiB >= AEAD_P_MAX_GIB THEN Err("aead::Error")
        ELSE [ok |-> TRUE, val |-> ct \o AuthTag(key, nonce, ct), err |-> ""]

\* Mutant of AeadDecrypt: the key stream removed without verifying the tag.
AeadDecryptUnverified(key, nonce, data) ==
    IF Len(data) < TAG_SIZE THEN Err("aead::Error")
    ELSE LET n == Len(data) - TAG_SIZE
             ct == SubSeq(data, 1, n)
         IN  [ok |-> TRUE,
              val |-> [i \in 1..n |-> (ct[i] + 256 - KeyStream(key, nonce, i)) % 256],
              err |-> ""]

\* cipher.decrypt(nonce, ciphertext): verifies the tag, then decrypts.
AeadDecrypt(key, nonce, data) ==
    IF Len(data) < TAG_SIZE THEN Err("aead::Error")
    ELSE LET n == Len(data) - TAG_SIZE
             ct == SubSeq(data, 1, n)
             tag == SubSeq(data, n + 1, Len(data))
         IN  IF tag # AuthTag(key, nonce, ct) THEN Err("aead::Error")
             ELSE [ok |-> TRUE,
                   val |-> [i \in 1..n |-> (ct[i] + 256 - KeyStream(key, nonce, i)) % 256],
                   err |-> ""]

\* A UTF-8 continuation byte at position i.
IsContinuation(bytes, i) == i <= Len(bytes) /\ bytes[i] \in 128..191

\* String::from_utf8: the bytes from position i on are well-formed UTF-8 (one
\* to four bytes per character, no overlong form, no surrogate, at most U+10FFFF).
RECURSIVE IsUtf8From(_, _)
IsUtf8From(bytes, i) ==
    IF i > Len(bytes) THEN TRUE
    ELSE LET b == bytes[i]
         IN  IF b < 128 THEN IsUtf8From(bytes, i + 1)
             ELSE IF b \in 194..223
                 THEN IsContinuation(bytes, i + 1) /\ IsUtf8From(bytes, i + 2)
             ELSE IF b \in 224..239
                 THEN /\ IsContinuation(bytes, i + 1) /\ IsContinuation(bytes, i + 2)
                      /\ (b = 224 => bytes[i + 1] >= 160)
                      /\ (b = 237 => bytes[i + 1] <= 159)
                      /\ IsUtf8From(bytes, i + 3)
             ELSE IF b \in 240..244
                 THEN /\ IsContinuation(bytes, i + 1) /\ IsContinuation(bytes, i + 2)
                      /\ IsContinuation(bytes, i + 3)
                      /\ (b = 240 => bytes[i + 1] >= 144)
                      /\ (b = 244 => bytes[i + 1] <= 143)
                      /\ IsUtf8From(bytes, i + 4)
             ELSE FALSE

IsUtf8(bytes) == IsUtf8From(bytes, 1)

\* Mutant of encrypt: a nonce of zeros in place of the bytes drawn.
EncryptZeroNonce(plaintext, key, nonce_bytes) ==
    LET zeros == [i \in 1..NONCE_SIZE |-> 0]
        ciphertext == AeadEncrypt(key, zeros, plaintext)
    IN  IF ~ciphertext.ok THEN Err("Encryption")
        ELSE [ok |-> TRUE, val |-> zeros \o ciphertext.val, err |-> ""]

encrypt(plaintext, key, nonce_bytes) ==
    LET ciphertext == AeadEncrypt(key, nonce_bytes, plaintext)
    IN  IF ~ciphertext.ok THEN Err("Encryption")
        ELSE [ok |-> TRUE, val |-> nonce_bytes \o ciphertext.val, err |-> ""]

decrypt(encrypted_data, key) ==
    IF Len(encrypted_data) < NONCE_SIZE THEN Err("Decryption")
    ELSE LET nonce == SubSeq(encrypted_data, 1, NONCE_SIZE)
             ciphertext == SubSeq(encrypted_data, NONCE_SIZE + 1, Len(encrypted_data))
             plaintext == AeadDecrypt(key, nonce, ciphertext)
         IN  IF ~plaintext.ok THEN Err("Decryption")
             ELSE IF ~IsUtf8(plaintext.val) THEN Err("Decryption")
             ELSE plaintext

\* The base64 STANDARD alphabet as ASCII codes; 61 is the padding '='.
B64Char(v) ==
    IF v < 26 THEN 65 + v
    ELSE IF v < 52 THEN 97 + (v - 26)
    ELSE IF v < 62 THEN 48 + (v - 52)
    ELSE IF v = 62 THEN 43 ELSE 47

\* The 6-bit value of a base64 character, or -1 for a character outside the alphabet.
B64Value(c) ==
    IF c >= 65 /\ c <= 90 THEN c - 65
    ELSE IF c >= 97 /\ c <= 122 THEN c - 97 + 26
    ELSE IF c >= 48 /\ c <= 57 THEN c - 48 + 52
    ELSE IF c = 43 THEN 62
    ELSE IF c = 47 THEN 63
    ELSE -1

\* Base64 without padding, the B64 of PHC strings: SaltString::encode_b64's text.
B64Unpadded(encrypted_data) ==
    LET n == Len(encrypted_data)
        groups == (n + 2) \div 3
        Byte(i) == IF i <= n THEN encrypted_data[i] ELSE 0
        Char(j) ==
            LET g == (j - 1) \div 4
                k == (j - 1) % 4
                b0 == Byte(3 * g + 1)
                b1 == Byte(3 * g + 2)
                b2 == Byte(3 * g + 3)
            IN  IF k = 0 THEN B64Char(b0 \div 4)
                ELSE IF k = 1 THEN B64Char((b0 % 4) * 16 + b1 \div 16)
                ELSE IF k = 2 THEN
                    (IF 3 * g + 2 > n THEN 61 ELSE B64Char((b1 % 16) * 4 + b2 \div 64))
                ELSE (IF 3 * g + 3 > n THEN 61 ELSE B64Char(b2 % 64))
    IN  [j \in 1..((4 * n + 2) \div 3) |-> Char(j)]

\* Mutant of encode_encrypted: the STANDARD_NO_PAD engine, no trailing '='.
EncodeNoPad(encrypted_data) == B64Unpadded(encrypted_data)

encode_encrypted(encrypted_data) ==
    LET n == Len(encrypted_data)
        groups == (n + 2) \div 3
        Byte(i) == IF i <= n THEN encrypted_data[i] ELSE 0
        Char(j) ==
            LET g == (j - 1) \div 4
                k == (j - 1) % 4
                b0 == Byte(3 * g + 1)
                b1 == Byte(3 * g + 2)
                b2 == Byte(3 * g + 3)
            IN  IF k = 0 THEN B64Char(b0 \div 4)
                ELSE IF k = 1 THEN B64Char((b0 % 4) * 16 + b1 \div 16)
                ELSE IF k = 2 THEN
                    (IF 3 * g + 2 > n THEN 61 ELSE B64Char((b1 % 16) * 4 + b2 \div 64))
                ELSE (IF 3 * g + 3 > n THEN 61 ELSE B64Char(b2 % 64))
    IN  [j \in 1..(4 * groups) |-> Char(j)]

decode_encrypted(encoded) ==
    LET n == Len(encoded)
        pad == IF n >= 2 /\ encoded[n] = 61 /\ encoded[n - 1] = 61 THEN 2
               ELSE IF n >= 1 /\ encoded[n] = 61 THEN 1 ELSE 0
        Val(j) == B64Value(encoded[j])
        outLen == 3 * (n \div 4) - pad
        Out(i) ==
            LET g == (i - 1) \div 3
                k == (i - 1) % 3
                v0 == Val(4 * g + 1)
                v1 == Val(4 * g + 2)
                v2 == IF 4 * g + 3 > n - pad THEN 0 ELSE Val(4 * g + 3)
                v3 == IF 4 * g + 4 > n - pad THEN 0 ELSE Val(4 * g + 4)
            IN  IF k = 0 THEN v0 * 4 + v1 \div 16
                ELSE IF k = 1 THEN (v1 % 16) * 16 + v2 \div 4
                ELSE (v2 % 4) * 64 + v3
    IN  IF n % 4 # 0 THEN Err("Decryption")
        ELSE IF \E j \in 1..(n - pad) : Val(j) < 0 THEN Err("Decryption")
        ELSE IF pad = 1 /\ Val(n - 1) % 4 # 0 THEN Err("Decryption")
        ELSE IF pad = 2 /\ Val(n - 2) % 16 # 0 THEN Err("Decryption")
        ELSE [ok |-> TRUE, val |-> [i \in 1..outLen |-> Out(i)], err |-> ""]

\* Salt::decode_b64: the bytes of an unpadded B64 text.
SaltDecodeB64(text) ==
    IF Len(text) % 4 = 2 THEN decode_encrypted(text \o <<61, 61>>)
    ELSE IF Len(text) % 4 = 3 THEN decode_encrypted(text \o <<61>>)
    ELSE decode_encrypted(text)

\* SaltString::encode_b64: the salt's B64 text in a buffer of SALT_MAX_LENGTH
\* characters; a longer text is an error.
SaltStringEncodeB64(salt) ==
    IF (4 * Len(salt) + 2) \div 3 > SALT_MAX_LENGTH THEN Err("password_hash::Error")
    ELSE Ok(B64Unpadded(salt))

\* Argon2id, abstracted: output_len bytes computed from the password and the salt.
Argon2Hash(password, salt, output_len) ==
    [j \in 1..output_len |->
        (WeightedSum(password, 1, j) + 7 * WeightedSum(salt, 1, j + 1)
         + Len(password) + 3 * Len(salt) + 13 * j) % 256]

\* Argon2::hash_password: decodes the salt string, then hashes; the hash of the
\* PasswordHash it returns is always Some.
Argon2HashPassword(password, salt_string, output_len) ==
    LET salt_bytes == SaltDecodeB64(salt_string)
    IN  IF ~salt_bytes.ok THEN Err("password_hash::Error")
        ELSE IF Len(salt_bytes.val) < ARGON2_MIN_SALT_LEN THEN Err("password_hash::Error")
        ELSE Ok(Argon2Hash(password, salt_bytes.val, output_len))

\* Mutant of DeriveKeyWith: the test of the salt's length left out.
DeriveKeyAnySalt(output_len, password, salt) ==
    LET salt_string == SaltStringEncodeB64(salt)
        password_hash == Argon2HashPassword(password, salt_string.val, output_len)
    IN  IF ~salt_string.ok THEN Err("KeyDerivation")
        ELSE IF ~password_hash.ok THEN Err("KeyDerivation")
        ELSE IF Len(password_hash.val) < KEY_SIZE THEN Err("InvalidKeyLength")
        ELSE Ok(SubSeq(password_hash.val, 1, KEY_SIZE))

\* The body of derive_key_from_password, for a hasher whose hashes are
\* output_len bytes long.
DeriveKeyWith(output_len, password, salt) ==
    LET salt_string == SaltStringEncodeB64(salt)
        password_hash == Argon2HashPassword(password, salt_string.val, output_len)
    IN  IF Len(salt) < MIN_SALT_SIZE THEN Err("KeyDerivation")
        ELSE IF ~salt_string.ok THEN Err("KeyDerivation")
        ELSE IF ~password_hash.ok THEN Err("KeyDerivation")
        ELSE IF Len(password_hash.val) < KEY_SIZE THEN Err("InvalidKeyLength")
        ELSE Ok(SubSeq(password_hash.val, 1, KEY_SIZE))

\* derive_key_from_password: the hasher is Argon2::default().
derive_key_from_password(password, salt) ==
    DeriveKeyWith(ARGON2_DEFAULT_OUTPUT_LEN, password, salt)

----------------------------------------------------------------------------
(* models/connection.rs *)

\* enum DatabaseType, by discriminant.
MySQL == 0
PostgreSQL == 1
DatabaseType == {MySQL, PostgreSQL}

\* #[derive(Debug)] on DatabaseType: the variant's name.
DebugDatabaseType(db_type) == IF db_type = MySQL THEN "MySQL" ELSE "PostgreSQL"

\* Mutant of DatabaseTypeFromStr: the match made on the lower-cased string.
DatabaseTypeFromStrAnyCase(s) ==
    IF s \in {"MySQL", "mysql", "MYSQL"} THEN [ok |-> TRUE, val |-> <<MySQL>>, err |-> ""]
    ELSE IF s \in {"PostgreSQL", "postgresql", "POSTGRESQL"}
        THEN [ok |-> TRUE, val |-> <<PostgreSQL>>, err |-> ""]
    ELSE Err("Invalid database type")

\* impl FromStr for DatabaseType; val holds the discriminant.
DatabaseTypeFromStr(s) ==
    IF s = "MySQL" THEN [ok |-> TRUE, val |-> <<MySQL>>, err |-> ""]
    ELSE IF s = "PostgreSQL" THEN [ok |-> TRUE, val |-> <<PostgreSQL>>, err |-> ""]
    ELSE Err("Invalid database type")

\* enum SSHAuth as one record shape; the fields a variant lacks stay at their defaults.
SSHAuthAgent == [variant |-> "Agent", password |-> "", key_path |-> "", passphrase |-> None]
SSHAuthPassword(pw) ==
    [variant |-> "Password", password |-> pw, key_path |-> "", passphrase |-> None]
SSHAuthPrivateKey(path, phrase) ==
    [variant |-> "PrivateKey", password |-> "", key_path |-> path, passphrase |-> phrase]

----------------------------------------------------------------------------
(* serde_json on SSHConfig and SSLConfig.  A JSON text is modelled by its  *)
(* members in order; a member is [key, kind, s, n, b, o] where kind names  *)
(* the JSON type and o holds the members of a nested object.               *)

JNull(k) == [key |-> k, kind |-> "null", s |-> "", n |-> 0, b |-> FALSE, o |-> <<>>]
JString(k, v) == [key |-> k, kind |-> "string", s |-> v, n |-> 0, b |-> FALSE, o |-> <<>>]
JNumber(k, v) == [key |-> k, kind |-> "number", s |-> "", n |-> v, b |-> FALSE, o |-> <<>>]
JBool(k, v) == [key |-> k, kind |-> "bool", s |-> "", n |-> 0, b |-> v, o |-> <<>>]
JObject(k, members) ==
    [key |-> k, kind |-> "object", s |-> "", n |-> 0, b |-> FALSE, o |-> members]

\* Option<String> as a JSON member.
JOptString(k, opt) == IF opt = None THEN JNull(k) ELSE JString(k, opt[1])

\* A member that is a string or null, back to Option<String>; Err otherwise.
OptStringFromJson(m) ==
    IF m.kind = "null" THEN [ok |-> TRUE, val |-> None]
    ELSE IF m.kind = "string" THEN [ok |-> TRUE, val |-> Some(m.s)]
    ELSE [ok |-> FALSE, val |-> None]

\* Serialize for SSHAuth, serde's externally tagged enum.
SSHAuthToJson(k, auth) ==
    IF auth.variant = "Agent" THEN JString(k, "Agent")
    ELSE IF auth.variant = "Password"
        THEN JObject(k, <<JString("Password", auth.password)>>)
    ELSE JObject(k, <<JObject("PrivateKey",
                        <<JString("key_path", auth.key_path),
                          JOptString("passphrase", auth.passphrase)>>)>>)

\* Deserialize for SSHAuth.
SSHAuthFromJson(m) ==
    IF m.kind = "string" /\ m.s = "Agent" THEN [ok |-> TRUE, val |-> SSHAuthAgent]
    ELSE IF m.kind = "object" /\ Len(m.o) = 1 /\ m.o[1].key = "Password"
            /\ m.o[1].kind = "string"
        THEN [ok |-> TRUE, val |-> SSHAuthPassword(m.o[1].s)]
    ELSE IF m.kind = "object" /\ Len(m.o) = 1 /\ m.o[1].key = "PrivateKey"
            /\ m.o[1].kind = "object" /\ Len(m.o[1].o) = 2
            /\ m.o[1].o[1].key = "key_path" /\ m.o[1].o[1].kind = "string"
            /\ m.o[1].o[2].key = "passphrase" /\ OptStringFromJson(m.o[1].o[2]).ok
        THEN [ok |-> TRUE,
              val |-> SSHAuthPrivateKey(m.o[1].o[1].s, OptStringFromJson(m.o[1].o[2]).val)]
    ELSE [ok |-> FALSE, val |-> SSHAuthAgent]

\* serde_json::to_string(&SSHConfig)
SSHConfigToJson(c) ==
    <<JString("host", c.host), JNumber("port", c.port),
      JString("username", c.username), SSHAuthToJson("auth", c.auth)>>

\* serde_json::from_str::<SSHConfig>; val is Some(config).
SSHConfigFromJson(json) ==
    IF /\ Len(json) = 4
       /\ json[1].key = "host" /\ json[1].kind = "string"
       /\ json[2].key = "port" /\ json[2].kind = "number" /\ json[2].n \in 0..U16_MAX
       /\ json[3].key = "username" /\ json[3].kind = "string"
       /\ json[4].key = "auth" /\ SSHAuthFromJson(json[4]).ok
    THEN [ok |-> TRUE,
          val |-> Some([host |-> json[1].s, port |-> json[2].n,
                        username |-> json[3].s, auth |-> SSHAuthFromJson(json[4]).val]),
          err |-> ""]
    ELSE [ok |-> FALSE, val |-> None, err |-> "serde_json::Error"]

\* serde_json::to_string(&SSLConfig)
SSLConfigToJson(c) ==
    <<JOptString("ca_cert", c.ca_cert), JOptString("client_cert", c.client_cert),
      JOptString("client_key", c.client_key), JBool("verify", c.verify)>>

\* serde_json::from_str::<SSLConfig>; val is Some(config).
SSLConfigFromJson(json) ==
    IF /\ Len(json) = 4
       /\ json[1].key = "ca_cert" /\ OptStringFromJson(json[1]).ok
       /\ json[2].key = "client_cert" /\ OptStringFromJson(json[2]).ok
       /\ json[3].key = "client_key" /\ OptStringFromJson(json[3]).ok
       /\ json[4].key = "verify" /\ json[4].kind = "bool"
    THEN [ok |-> TRUE,
          val |-> Some([ca_cert |-> OptStringFromJson(json[1]).val,
                        client_cert |-> OptStringFromJson(json[2]).val,
                        client_key |-> OptStringFromJson(json[3]).val,
                        verify |-> json[4].b]),
          err |-> ""]
    ELSE [ok |-> FALSE, val |-> None, err |-> "serde_json::Error"]

----------------------------------------------------------------------------
(* storage/connection_store.rs: the row codec *)

\* Mutant of ConnectionRow: host and username bound to each other's parameter.
ConnectionRowSwapped(connection, encoded_password, clock) ==
    [id |-> connection.id,
     name |-> connection.name,
     color |-> connection.color,
     db_type |-> DebugDatabaseType(connection.db_type),
     host |-> connection.username,
     port |-> connection.port,
     username |-> connection.host,
     password |-> encoded_password,
     database |-> connection.database,
     ssh_config |-> IF connection.ssh_config = None THEN None
                    ELSE Some(SSHConfigToJson(connection.ssh_config[1])),
     ssl_config |-> IF connection.ssl_config = None THEN None
                    ELSE Some(SSLConfigToJson(connection.ssl_config[1])),
     created_at |-> clock]

\* Mutant of ConnectionRow: an absent nested config written as an empty
\* object in place of NULL.
ConnectionRowEmptyObject(connection, encoded_password, clock) ==
    [id |-> connection.id,
     name |-> connection.name,
     color |-> connection.color,
     db_type |-> DebugDatabaseType(connection.db_type),
     host |-> connection.host,
     port |-> connection.port,
     username |-> connection.username,
     password |-> encoded_password,
     database |-> connection.database,
     ssh_config |-> IF connection.ssh_config = None THEN Some(<<>>)
                    ELSE Some(SSHConfigToJson(connection.ssh_config[1])),
     ssl_config |-> IF connection.ssl_config = None THEN Some(<<>>)
                    ELSE Some(SSLConfigToJson(connection.ssl_config[1])),
     created_at |-> clock]

\* The row save_connection binds to the INSERT, with the engine's created_at default.
ConnectionRow(connection, encoded_password, clock) ==
    [id |-> connection.id,
     name |-> connection.name,
     color |-> connection.color,
     db_type |-> DebugDatabaseType(connection.db_type),
     host |-> connection.host,
     port |-> connection.port,
     username |-> connection.username,
     password |-> encoded_password,
     database |-> connection.database,
     ssh_config |-> IF connection.ssh_config = None THEN None
                    ELSE Some(SSHConfigToJson(connection.ssh_config[1])),
     ssl_config |-> IF connection.ssl_config = None THEN None
                    ELSE Some(SSLConfigToJson(connection.ssl_config[1])),
     created_at |-> clock]

\* Mutant of from_row: the port column read as i64 and cast with `as u16`.
FromRowCast(row) == [ok |-> TRUE, val |-> [row EXCEPT !.port = @ % (U16_MAX + 1)]]

\* RawConnectionRow::from_row: the typed read of the columns; port must fit u16.
from_row(row) ==
    IF row.port \notin 0..U16_MAX THEN [ok |-> FALSE, val |-> row]
    ELSE [ok |-> TRUE, val |-> row]

parse_database_type(s) ==
    LET parsed == DatabaseTypeFromStr(s)
    IN  IF parsed.ok THEN parsed ELSE Err("Serialization")

\* Mutant of into_connection: the errors of serde_json mapped to
\* StoreError::Encryption like those of the secret.
IntoConnectionOneKind(raw, key) ==
    LET encrypted_password == decode_encrypted(raw.encoded_password)
        password == decrypt(encrypted_password.val, key)
        db_type == parse_database_type(raw.db_type_str)
        ssh_config == IF raw.ssh_config_json = None
                      THEN [ok |-> TRUE, val |-> None, err |-> ""]
                      ELSE SSHConfigFromJson(raw.ssh_config_json[1])
        ssl_config == IF raw.ssl_config_json = None
                      THEN [ok |-> TRUE, val |-> None, err |-> ""]
                      ELSE SSLConfigFromJson(raw.ssl_config_json[1])
    IN  IF ~encrypted_password.ok THEN Err("Encryption")
        ELSE IF ~password.ok THEN Err("Encryption")
        ELSE IF ~db_type.ok THEN Err("Serialization")
        ELSE IF ~ssh_config.ok THEN Err("Encryption")
        ELSE IF ~ssl_config.ok THEN Err("Encryption")
        ELSE Ok(<<[id |-> raw.id,
                   name |-> raw.name,
                   color |-> raw.color,
                   db_type |-> db_type.val[1],
                   host |-> raw.host,
                   port |-> raw.port,
                   username |-> raw.username,
                   password |-> password.val,
                   database |-> raw.database,
                   ssh_config |-> ssh_config.val,
                   ssl_config |-> ssl_config.val]>>)

\* Mutant of into_connection: the kind parsed before the secret is opened.
IntoConnectionKindFirst(raw, key) ==
    LET encrypted_password == decode_encrypted(raw.encoded_password)
        password == decrypt(encrypted_password.val, key)
        db_type == parse_database_type(raw.db_type_str)
        ssh_config == IF raw.ssh_config_json = None
                      THEN [ok |-> TRUE, val |-> None, err |-> ""]
                      ELSE SSHConfigFromJson(raw.ssh_config_json[1])
        ssl_config == IF raw.ssl_config_json = None
                      THEN [ok |-> TRUE, val |-> None, err |-> ""]
                      ELSE SSLConfigFromJson(raw.ssl_config_json[1])
    IN  IF ~db_type.ok THEN Err("Serialization")
        ELSE IF ~encrypted_password.ok THEN Err("Encryption")
        ELSE IF ~password.ok THEN Err("Encryption")
        ELSE IF ~ssh_config.ok THEN Err("Serialization")
        ELSE IF ~ssl_config.ok THEN Err("Serialization")
        ELSE Ok(<<[id |-> raw.id,
                   name |-> raw.name,
                   color |-> raw.color,
                   db_type |-> db_type.val[1],
                   host |-> raw.host,
                   port |-> raw.port,
                   username |-> raw.username,
                   password |-> password.val,
                   database |-> raw.database,
                   ssh_config |-> ssh_config.val,
                   ssl_config |-> ssl_config.val]>>)

\* The statement of into_connection whose ? returns the error, named by what
\* it evaluates ("" when the row decodes): the message in the StoreError is
\* that statement's.
FailingStep(raw, key) ==
    LET encrypted_password == decode_encrypted(raw.encoded_password)
    IN  IF ~encrypted_password.ok THEN "decode_encrypted"
        ELSE IF ~decrypt(encrypted_password.val, key).ok THEN "decrypt"
        ELSE IF ~parse_database_type(raw.db_type_str).ok THEN "parse_database_type"
        ELSE IF raw.ssh_config_json # None /\ ~SSHConfigFromJson(raw.ssh_config_json[1]).ok
            THEN "ssh_config"
        ELSE IF raw.ssl_config_json # None /\ ~SSLConfigFromJson(raw.ssl_config_json[1]).ok
            THEN "ssl_config"
        ELSE ""

\* RawConnectionRow::into_connection: the first failing step decides the error.
into_connection(raw, key) ==
    LET encrypted_password == decode_encrypted(raw.encoded_password)
        password == decrypt(encrypted_password.val, key)
        db_type == parse_database_type(raw.db_type_str)
        ssh_config == IF raw.ssh_config_json = None
                      THEN [ok |-> TRUE, val |-> None, err |-> ""]
                      ELSE SSHConfigFromJson(raw.ssh_config_json[1])
        ssl_config == IF raw.ssl_config_json = None
                      THEN [ok |-> TRUE, val |-> None, err |-> ""]
                      ELSE SSLConfigFromJson(raw.ssl_config_json[1])
    IN  IF ~encrypted_password.ok THEN Err("Encryption")
        ELSE IF ~password.ok THEN Err("Encryption")
        ELSE IF ~db_type.ok THEN Err("Serialization")
        ELSE IF ~ssh_config.ok THEN Err("Serialization")
        ELSE IF ~ssl_config.ok THEN Err("Serialization")
        ELSE Ok(<<[id |-> raw.id,
                   name |-> raw.name,
                   color |-> raw.color,
                   db_type |-> db_type.val[1],
                   host |-> raw.host,
                   port |-> raw.port,
                   username |-> raw.username,
                   password |-> password.val,
                   database |-> raw.database,
                   ssh_config |-> ssh_config.val,
                   ssl_config |-> ssl_config.val]>>)

\* struct RawConnectionRow, filled from the eleven selected columns of a row.
RawConnectionRow(row) ==
    [id |-> row.id, name |-> row.name, color |-> row.color,
     db_type_str |-> row.db_type, host |-> row.host, port |-> row.port,
     username |-> row.username, encoded_password |-> row.password,
     database |-> row.database, ssh_config_json |-> row.ssh_config,
     ssl_config_json |-> row.ssl_config]

----------------------------------------------------------------------------
(* The SQL statements of connection_store.rs on the table *)

\* Rows of rows whose id differs from id, order kept.
RECURSIVE RowsWithoutId(_, _)
RowsWithoutId(rows, id) ==
    IF rows = <<>> THEN <<>>
    ELSE (IF Head(rows).id = id THEN <<>> ELSE <<Head(rows)>>)
         \o RowsWithoutId(Tail(rows), id)

\* SELECT ... WHERE id = ?1
RECURSIVE RowsWithId(_, _)
RowsWithId(rows, id) ==
    IF rows = <<>> THEN <<>>
    ELSE (IF Head(rows).id = id THEN <<Head(rows)>> ELSE <<>>)
         \o RowsWithId(Tail(rows), id)

\* Mutant of InsertOrReplace: a plain insert into a table without the primary key.
InsertWithoutReplace(tbl, row, engine_ok) ==
    IF ~engine_ok THEN [ok |-> FALSE, table |-> tbl]
    ELSE [ok |-> TRUE, table |-> Append(tbl, row)]

\* Mutant of InsertOrReplace: the failed statement's delete is not rolled back.
InsertOrReplaceNotAtomic(tbl, row, engine_ok) ==
    IF ~engine_ok THEN [ok |-> FALSE, table |-> RowsWithoutId(tbl, row.id)]
    ELSE [ok |-> TRUE, table |-> Append(RowsWithoutId(tbl, row.id), row)]

\* INSERT OR REPLACE INTO connections: a row in conflict on the primary key is
\* deleted and the new row gets the next rowid.  A statement the engine fails
\* (engine_ok false: a full disk, an I/O error) is rolled back.
InsertOrReplace(tbl, row, engine_ok) ==
    IF ~engine_ok THEN [ok |-> FALSE, table |-> tbl]
    ELSE [ok |-> TRUE, table |-> Append(RowsWithoutId(tbl, row.id), row)]

\* Mutant of DeleteWhereId: the statement without its WHERE clause.
DeleteEveryRow(tbl, id, engine_ok) ==
    IF ~engine_ok THEN [ok |-> FALSE, table |-> tbl]
    ELSE [ok |-> TRUE, table |-> <<>>]

\* DELETE FROM connections WHERE id = ?1
DeleteWhereId(tbl, id, engine_ok) ==
    IF ~engine_ok THEN [ok |-> FALSE, table |-> tbl]
    ELSE [ok |-> TRUE, table |-> RowsWithoutId(tbl, id)]

\* Puts r into rows, which are in name order, behind every row whose name is not greater.
RECURSIVE InsertByName(_, _)
InsertByName(rows, r) ==
    IF rows = <<>> THEN <<r>>
    ELSE IF BytesLeq(Head(rows).name, r.name)
        THEN <<Head(rows)>> \o InsertByName(Tail(rows), r)
    ELSE <<r>> \o rows

\* ORDER BY name over rows taken in rowid order; equal names keep that order.
RECURSIVE OrderByName(_)
OrderByName(rows) ==
    IF rows = <<>> THEN <<>>
    ELSE InsertByName(OrderByName(SubSeq(rows, 1, Len(rows) - 1)), rows[Len(rows)])

\* Mutant of SelectAllOrdered: the query without its ORDER BY.
SelectAllUnordered(tbl) == tbl

\* SELECT ... FROM connections ORDER BY name
SelectAllOrdered(tbl) == OrderByName(tbl)

----------------------------------------------------------------------------
(* storage/connection_store.rs: ConnectionStore.  Each operation yields    *)
(* [res, table]: its Result and the table it leaves.                       *)

\* Mutant of KeyFromPassphrase: a short passphrase padded with spaces.
KeyPaddedWithSpaces(key_bytes) ==
    LET copy_len == Min(Len(key_bytes), KEY_SIZE)
    IN  [i \in 1..KEY_SIZE |-> IF i <= copy_len THEN key_bytes[i] ELSE 32]

\* ConnectionStore::new: the passphrase's bytes, cut or zero-padded to 32.
KeyFromPassphrase(key_bytes) ==
    LET copy_len == Min(Len(key_bytes), KEY_SIZE)
    IN  [i \in 1..KEY_SIZE |-> IF i <= copy_len THEN key_bytes[i] ELSE 0]

\* Mutant of CreateTableIfNotExists: the table dropped and created again.
CreateTableAnew(file_has_table, tbl, engine_ok) ==
    IF ~engine_ok THEN [ok |-> FALSE, has_table |-> file_has_table, table |-> tbl]
    ELSE [ok |-> TRUE, has_table |-> TRUE, table |-> <<>>]

\* CREATE TABLE IF NOT EXISTS connections (...): a table that exists is left
\* as it is, rows included; else an empty one is created.
CreateTableIfNotExists(file_has_table, tbl, engine_ok) ==
    IF ~engine_ok THEN [ok |-> FALSE, has_table |-> file_has_table, table |-> tbl]
    ELSE [ok |-> TRUE, has_table |-> TRUE,
          table |-> IF file_has_table THEN tbl ELSE <<>>]

\* ConnectionStore::new on a file, of which file_has_table and tbl are the
\* schema and the rows ([ok, key, has_table, table]; key is that of the
\* instance returned).  engine_ok: SqliteConnection::open and the CREATE succeed.
new(file_has_table, tbl, encryption_key_str, engine_ok) ==
    LET key == KeyFromPassphrase(encryption_key_str)
        created == CreateTableIfNotExists(file_has_table, tbl, engine_ok)
    IN  IF ~created.ok
            THEN [ok |-> FALSE, key |-> <<>>, has_table |-> created.has_table,
                  table |-> created.table]
        ELSE [ok |-> TRUE, key |-> key, has_table |-> created.has_table,
              table |-> created.table]

\* is_initialized: the query of sqlite_master for the table returns a row.
is_initialized(file_has_table) == file_has_table

\* Mutant of save_connection: the profile's password bound in place of the
\* encoded envelope.
SaveConnectionPlaintext(tbl, key, connection, nonce_bytes, clock, engine_ok) ==
    LET encrypted_password == encrypt(connection.password, key, nonce_bytes)
        executed == InsertOrReplace(tbl,
                        ConnectionRow(connection, connection.password, clock), engine_ok)
    IN  IF ~encrypted_password.ok THEN [res |-> Err("Encryption"), table |-> tbl]
        ELSE IF ~executed.ok THEN [res |-> Err("Database"), table |-> executed.table]
        ELSE [res |-> Ok(<<>>), table |-> executed.table]

save_connection(tbl, key, connection, nonce_bytes, clock, engine_ok) ==
    LET encrypted_password == encrypt(connection.password, key, nonce_bytes)
        encoded_password == encode_encrypted(encrypted_password.val)
        executed == InsertOrReplace(tbl, ConnectionRow(connection, encoded_password, clock),
                                    engine_ok)
    IN  IF ~encrypted_password.ok THEN [res |-> Err("Encryption"), table |-> tbl]
        ELSE IF ~executed.ok THEN [res |-> Err("Database"), table |-> executed.table]
        ELSE [res |-> Ok(<<>>), table |-> executed.table]

\* Mutant of load_connection: QueryReturnedNoRows turned into StoreError::NotFound.
LoadConnectionNotFound(tbl, key, id, engine_ok) ==
    LET rows == RowsWithId(tbl, id)
        raw == from_row(rows[1])
    IN  IF ~engine_ok THEN [res |-> Err("Database"), table |-> tbl]
        ELSE IF rows = <<>> THEN [res |-> Err("NotFound"), table |-> tbl]
        ELSE IF ~raw.ok THEN [res |-> Err("Database"), table |-> tbl]
        ELSE [res |-> into_connection(RawConnectionRow(raw.val), key), table |-> tbl]

load_connection(tbl, key, id, engine_ok) ==
    LET rows == RowsWithId(tbl, id)
        raw == from_row(rows[1])
    IN  IF ~engine_ok THEN [res |-> Err("Database"), table |-> tbl]
        ELSE IF rows = <<>> THEN [res |-> Ok(None), table |-> tbl]
        ELSE IF ~raw.ok THEN [res |-> Err("Database"), table |-> tbl]
        ELSE [res |-> into_connection(RawConnectionRow(raw.val), key), table |-> tbl]

\* Mutant of CollectConnections: filter_map in place of map, the rows that do
\* not decode left out of the listing.
RECURSIVE CollectDecodable(_, _)
CollectDecodable(rows, key) ==
    IF rows = <<>> THEN Ok(<<>>)
    ELSE LET first == into_connection(RawConnectionRow(Head(rows)), key)
             rest == CollectDecodable(Tail(rows), key)
         IN  IF ~first.ok THEN rest
             ELSE Ok(first.val \o rest.val)

\* collect() over the decoded rows: the first Err, else every connection in order.
RECURSIVE CollectConnections(_, _)
CollectConnections(rows, key) ==
    IF rows = <<>> THEN Ok(<<>>)
    ELSE LET first == into_connection(RawConnectionRow(Head(rows)), key)
             rest == CollectConnections(Tail(rows), key)
         IN  IF ~first.ok THEN first
             ELSE IF ~rest.ok THEN rest
             ELSE Ok(first.val \o rest.val)

\* Mutant of list_connections: query_row in place of query_map, the first row only.
ListConnectionsFirstRow(tbl, key, engine_ok) ==
    LET rows == SelectAllOrdered(tbl)
    IN  IF ~engine_ok THEN [res |-> Err("Database"), table |-> tbl]
        ELSE IF \E i \in DOMAIN rows : ~from_row(rows[i]).ok
            THEN [res |-> Err("Database"), table |-> tbl]
        ELSE [res |-> CollectConnections(SubSeq(rows, 1, Min(1, Len(rows))), key),
              table |-> tbl]

list_connections(tbl, key, engine_ok) ==
    LET rows == SelectAllOrdered(tbl)
    IN  IF ~engine_ok THEN [res |-> Err("Database"), table |-> tbl]
        ELSE IF \E i \in DOMAIN rows : ~from_row(rows[i]).ok
            THEN [res |-> Err("Database"), table |-> tbl]
        ELSE [res |-> CollectConnections(rows, key), table |-> tbl]

\* Mutant of delete_connection: a delete that changed no row reported as NotFound.
DeleteConnectionChecked(tbl, id, engine_ok) ==
    LET executed == DeleteWhereId(tbl, id, engine_ok)
    IN  IF ~executed.ok THEN [res |-> Err("Database"), table |-> executed.table]
        ELSE IF RowsWithId(tbl, id) = <<>> THEN [res |-> Err("NotFound"), table |-> tbl]
        ELSE [res |-> Ok(<<>>), table |-> executed.table]

delete_connection(tbl, id, engine_ok) ==
    LET executed == DeleteWhereId(tbl, id, engine_ok)
    IN  IF ~executed.ok THEN [res |-> Err("Database"), table |-> executed.table]
        ELSE [res |-> Ok(<<>>), table |-> executed.table]

----------------------------------------------------------------------------
(* Inputs: the profiles the commands are invoked with *)

\* "dbclient_default_key_32bytes!", the passphrase main.rs opens the store with.
DefaultPassphrase ==
    <<100, 98, 99, 108, 105, 101, 110, 116, 95, 100, 101, 102, 97, 117, 108, 116,
      95, 107, 101, 121, 95, 51, 50, 98, 121, 116, 101, 115, 33>>

\* Sample profiles: two for id c1 (an update), then other ids; names "B", "A",
\* "AB", "A"; secrets "p1", "pw2!", "" and "p1" (envelopes of 30, 32 and 28
\* bytes: base64 with no, one and two padding characters).
SampleConnections ==
    << [id |-> "c1", name |-> <<66>>, color |-> "#ef4444", db_type |-> MySQL,
        host |-> "localhost", port |-> 3306, username |-> "root",
        password |-> <<112, 49>>, database |-> Some("test_db"),
        ssh_config |-> None, ssl_config |-> None],
       [id |-> "c1", name |-> <<65>>, color |-> "#3b82f6", db_type |-> PostgreSQL,
        host |-> "db.internal", port |-> 5432, username |-> "admin",
        password |-> <<112, 119, 50, 33>>, database |-> None,
        ssh_config |-> Some([host |-> "bastion", port |-> 22, username |-> "tunnel",
                             auth |-> SSHAuthAgent]),
        ssl_config |-> Some([ca_cert |-> Some("/etc/ca.pem"), client_cert |-> None,
                             client_key |-> None, verify |-> TRUE])],
       [id |-> "c2", name |-> <<65, 66>>, color |-> "#ef4444", db_type |-> MySQL,
        host |-> "10.0.0.7", port |-> 65535, username |-> "",
        password |-> <<>>, database |-> None,
        ssh_config |-> Some([host |-> "jump", port |-> 2222, username |-> "ops",
                             auth |-> SSHAuthPassword("hunter2")]),
        ssl_config |-> None],
       [id |-> "c3", name |-> <<65>>, color |-> "#22c55e", db_type |-> PostgreSQL,
        host |-> "localhost", port |-> 0, username |-> "root",
        password |-> <<112, 49>>, database |-> Some(""),
        ssh_config |-> Some([host |-> "jump", port |-> 22, username |-> "ops",
                             auth |-> SSHAuthPrivateKey("/home/ops/.ssh/id", None)]),
        ssl_config |-> Some([ca_cert |-> None, client_cert |-> Some("/c.pem"),
                             client_key |-> Some("/k.pem"), verify |-> FALSE])] >>

Connections == {SampleConnections[i] : i \in 1..Min(NumConnections, Len(SampleConnections))}

\* The ids the commands are invoked with.
Ids == {c.id : c \in Connections}

NoRequest == [op |-> "none", connection |-> None, id |-> ""]
NoResponse == [ok |-> FALSE, val |-> <<>>, err |-> "pending"]

----------------------------------------------------------------------------
(* State machine *)

\* No direct call of storage/encryption.rs is made or was made.
NoDecrypt == [how |-> "none", data |-> <<>>, key |-> <<>>, res |-> NoResponse]

NoTests ==
    /\ test_plaintext = <<>>
    /\ test_key = <<>>
    /\ encrypted = <<>>
    /\ decrypted = NoDecrypt
    /\ derived = <<>>

\* The invocation runs no command on the remote server.
NoRemote == [active |-> FALSE, database_required |-> FALSE, connection |-> None]

\* No paginated read is made or was made.
NoPaging ==
    [call |-> "none", overflow_checks |-> FALSE, base |-> "", page |-> None,
     page_size |-> None, res |-> NoResponse]

\* ConnectionStore::new has returned Ok: the table exists, the store holds the
\* key, no command has reached the remote server.
StoreOpened ==
    /\ has_table = TRUE
    /\ store_open = TRUE
    /\ opened_with = <<DefaultPassphrase>>
    /\ remote = [p \in Procs |-> NoRemote]
    /\ paging = NoPaging

\* main.rs: a new store on an empty file, behind the mutex of AppState.
Init ==
    /\ NoTests
    /\ table = <<>>
    /\ encryption_key = KeyFromPassphrase(DefaultPassphrase)
    /\ rng = 0
    /\ now = 0
    /\ mutex = 0
    /\ pc = [p \in Procs |-> "idle"]
    /\ request = [p \in Procs |-> NoRequest]
    /\ response = [p \in Procs |-> NoResponse]
    /\ lastSave = [id \in Ids |-> None]
    /\ serialStore = <<>>
    /\ serialResp = [p \in Procs |-> NoResponse]
    /\ StoreOpened

\* The store call a request stands for, run on tbl; a save draws nonce_bytes and
\* reads clock.
StoreOp(tbl, key, req, nonce_bytes, clock, engine_ok) ==
    IF req.op = "save"
        THEN save_connection(tbl, key, req.connection[1], nonce_bytes, clock, engine_ok)
    ELSE IF req.op = "load" THEN load_connection(tbl, key, req.id, engine_ok)
    ELSE IF req.op = "list" THEN list_connections(tbl, key, engine_ok)
    ELSE delete_connection(tbl, req.id, engine_ok)

\* Mutant of MutexFree: the store shared without the lock.
MutexNotChecked == TRUE

\* Mutex::lock returns only when no other invocation holds the guard.
MutexFree == mutex = 0

\* state.connection_store.lock(): the invocation takes the guard.  The serial
\* run of the same request, in the order of the lock, is recorded beside it
\* (its nonce and clock are fixed: the serial run is compared by decoded profiles).
Lock(p, req) ==
    /\ pc[p] = "idle"
    /\ MutexFree
    /\ mutex' = p
    /\ pc' = [pc EXCEPT ![p] = "locked"]
    /\ request' = [request EXCEPT ![p] = req]
    /\ LET serial == StoreOp(serialStore, encryption_key, req, OsRngNonce(0), 0, TRUE)
       IN  /\ serialStore' = serial.table
           /\ serialResp' = [serialResp EXCEPT ![p] = serial.res]
    /\ UNCHANGED <<table, encryption_key, rng, now, response, lastSave>>
    /\ UNCHANGED testVars
    /\ UNCHANGED appVars

\* Saves drawn or about to draw a nonce.
SavesStarted == rng + Cardinality({p \in Procs : pc[p] = "locked" /\ request[p].op = "save"})

\* commands::save_connection, up to the lock.
CmdSaveConnection(p) ==
    /\ SavesStarted < MaxDraws
    /\ \E c \in Connections :
          Lock(p, [op |-> "save", connection |-> Some(c), id |-> c.id])

\* commands::load_connection, up to the lock.
CmdLoadConnection(p) ==
    \E id \in Ids : Lock(p, [op |-> "load", connection |-> None, id |-> id])

\* commands::list_connections, up to the lock.
CmdListConnections(p) == Lock(p, [op |-> "list", connection |-> None, id |-> ""])

\* commands::delete_connection, up to the lock.
CmdDeleteConnection(p) ==
    \E id \in Ids : Lock(p, [op |-> "delete", connection |-> None, id |-> id])

\* What the history lastSave becomes when req returned res.
LastSaveAfter(req, res) ==
    IF ~res.ok THEN lastSave
    ELSE IF req.op = "save" THEN [lastSave EXCEPT ![req.id] = req.connection]
    ELSE IF req.op = "delete" THEN [lastSave EXCEPT ![req.id] = None]
    ELSE lastSave

\* The store call of a command, under the guard.  engine_ok is the outcome of
\* the SQL statement in the persistence engine.  A save draws a nonce; its
\* INSERT, when the engine runs it, reads the clock for created_at.
StoreCall(p, engine_ok) ==
    /\ pc[p] = "locked"
    /\ \E clock \in now..MaxTime :
          LET draws == request[p].op = "save"
              call == StoreOp(table, encryption_key, request[p], OsRngNonce(rng),
                              clock, engine_ok)
          IN  /\ (draws /\ engine_ok) \/ clock = now
              /\ table' = call.table
              /\ response' = [response EXCEPT ![p] = call.res]
              /\ rng' = IF draws THEN rng + 1 ELSE rng
              /\ now' = clock
              /\ lastSave' = LastSaveAfter(request[p], call.res)
    /\ pc' = [pc EXCEPT ![p] = "returned"]
    /\ UNCHANGED <<encryption_key, mutex, request, serialStore, serialResp>>
    /\ UNCHANGED testVars
    /\ UNCHANGED appVars

\* The command returns its result; the guard, a temporary, is dropped.
Return(p) ==
    /\ pc[p] = "returned"
    /\ mutex' = 0
    /\ pc' = [pc EXCEPT ![p] = "idle"]
    /\ request' = [request EXCEPT ![p] = NoRequest]
    /\ response' = [response EXCEPT ![p] = NoResponse]
    /\ serialResp' = [serialResp EXCEPT ![p] = NoResponse]
    /\ UNCHANGED <<table, encryption_key, rng, now, lastSave, serialStore>>
    /\ UNCHANGED testVars
    /\ UNCHANGED appVars

Next ==
    \E p \in Procs :
        \/ CmdSaveConnection(p)
        \/ CmdLoadConnection(p)
        \/ CmdListConnections(p)
        \/ CmdDeleteConnection(p)
        \/ StoreCall(p, TRUE)
        \/ Return(p)

\* The persistence engine never fails a statement (spec: local disk operations
\* are assumed reliable).
Spec == Init /\ [][Next]_vars

\* The store call of a save whose INSERT OR REPLACE the persistence engine
\* fails (a full disk, an I/O error): execute returns Err and the ? returns it.
StoreCallEngineError(p) == request[p].op = "save" /\ StoreCall(p, FALSE)

NextFaulty ==
    \E p \in Procs :
        \/ CmdSaveConnection(p)
        \/ CmdLoadConnection(p)
        \/ CmdListConnections(p)
        \/ CmdDeleteConnection(p)
        \/ StoreCall(p, TRUE)
        \/ StoreCallEngineError(p)
        \/ Return(p)

\* As Spec, with an engine that may fail the write of any save.
SpecFaulty == Init /\ [][NextFaulty]_vars

----------------------------------------------------------------------------
(* A store opened on a file that exists: ConnectionStore::new opens the    *)
(* path it is given and creates the table only if it is absent, so the     *)
(* rows are those an earlier store left, under the passphrase it was       *)
(* opened with, and whatever else was written to the file since.           *)

\* "test_key_32_bytes_long_string!!", the passphrase the tests open stores with.
TestPassphrase ==
    <<116, 101, 115, 116, 95, 107, 101, 121, 95, 51, 50, 95, 98, 121, 116, 101,
      115, 95, 108, 111, 110, 103, 95, 115, 116, 114, 105, 110, 103, 33, 33>>

\* The passphrases stores are opened with.
Passphrases == {DefaultPassphrase, TestPassphrase}

\* A passphrase other than the given one.
OtherPassphrase(passphrase) ==
    IF passphrase = DefaultPassphrase THEN TestPassphrase ELSE DefaultPassphrase

\* The row a store with this key writes for a profile, on its n-th nonce.
WrittenRow(connection, key, n) ==
    save_connection(<<>>, key, connection, OsRngNonce(n), 0, TRUE).table[1]

\* What a column of a stored row can hold that no save under the reading
\* store's key wrote there.  secret: text outside the base64 alphabet, an
\* envelope with a byte changed, an envelope cut below the nonce, an envelope
\* sealed under another key.  kind: the variant's name in lower case, a name of
\* no variant.  ssh, ssl: a JSON object the struct cannot be read from.
Defects ==
    [secret : {"intact", "not_base64", "altered", "short", "other_key"},
     kind : {"intact", "lowercase", "unknown"},
     ssh : {"intact", "malformed"},
     ssl : {"intact", "malformed"}]

NoDefect == [secret |-> "intact", kind |-> "intact", ssh |-> "intact", ssl |-> "intact"]

\* The row written for the profile by a store with this passphrase, with the
\* defect in place.
DefectiveRow(connection, passphrase, n, defect) ==
    LET key == KeyFromPassphrase(passphrase)
        row == WrittenRow(connection, key, n)
        envelope == encrypt(connection.password, key, OsRngNonce(n)).val
        last == Len(envelope)
        password ==
            IF defect.secret = "not_base64" THEN <<42>> \o Tail(row.password)
            ELSE IF defect.secret = "altered"
                THEN encode_encrypted([envelope EXCEPT ![last] = (@ + 1) % 256])
            ELSE IF defect.secret = "short"
                THEN encode_encrypted(SubSeq(envelope, 1, NONCE_SIZE - 1))
            ELSE IF defect.secret = "other_key"
                THEN encode_encrypted(
                        encrypt(connection.password,
                                KeyFromPassphrase(OtherPassphrase(passphrase)),
                                OsRngNonce(n)).val)
            ELSE row.password
        db_type ==
            IF defect.kind = "lowercase"
                THEN (IF connection.db_type = MySQL THEN "mysql" ELSE "postgresql")
            ELSE IF defect.kind = "unknown" THEN "SQLite"
            ELSE row.db_type
        ssh_config ==
            IF defect.ssh = "malformed" THEN Some(<<>>) ELSE row.ssh_config
        ssl_config ==
            IF defect.ssl = "malformed"
                THEN Some(<<JNull("ca_cert"), JNull("client_cert"), JNull("client_key"),
                            JString("verify", "yes")>>)
            ELSE row.ssl_config
    IN  [row EXCEPT !.password = password, !.db_type = db_type,
                    !.ssh_config = ssh_config, !.ssl_config = ssl_config]

\* The indexes in increasing order, as a sequence.
RECURSIVE IndexSeq(_)
IndexSeq(indexes) ==
    IF indexes = {} THEN <<>>
    ELSE LET least == CHOOSE i \in indexes : \A j \in indexes : i <= j
         IN  <<least>> \o IndexSeq(indexes \ {least})

\* The sets of sample profiles a file can hold: one profile per id at most.
FileProfiles ==
    {indexes \in SUBSET (1..Min(NumConnections, Len(SampleConnections))) :
        \A i, j \in indexes :
            SampleConnections[i].id = SampleConnections[j].id => i = j}

\* The file a store with this passphrase wrote, one row per profile, of which
\* the row numbered damaged (none if 0) holds the defect.
File(indexes, passphrase, damaged, defect) ==
    LET order == IndexSeq(indexes)
    IN  [i \in 1..Len(order) |->
            DefectiveRow(SampleConnections[order[i]], passphrase, i - 1,
                         IF i = damaged THEN defect ELSE NoDefect)]

\* main.rs opens the store on a file that exists.
InitOpened ==
    /\ \E indexes \in FileProfiles, passphrase \in Passphrases :
          \E damaged \in 0..Cardinality(indexes), defect \in Defects :
              /\ (damaged = 0) = (defect = NoDefect)
              /\ table = File(indexes, passphrase, damaged, defect)
    /\ NoTests
    /\ encryption_key = KeyFromPassphrase(DefaultPassphrase)
    /\ rng = 0
    /\ now = 0
    /\ mutex = 0
    /\ pc = [p \in Procs |-> "idle"]
    /\ request = [p \in Procs |-> NoRequest]
    /\ response = [p \in Procs |-> NoResponse]
    /\ lastSave = [id \in Ids |-> None]
    /\ serialStore = table
    /\ serialResp = [p \in Procs |-> NoResponse]
    /\ StoreOpened

\* The commands that read the store.
NextOpened ==
    \E p \in Procs :
        \/ CmdLoadConnection(p)
        \/ CmdListConnections(p)
        \/ StoreCall(p, TRUE)
        \/ Return(p)

\* The reads of a store opened on a file that exists.
SpecOpened == InitOpened /\ [][NextOpened]_vars

----------------------------------------------------------------------------
(* A store opened on a file in which the port column of one row holds an   *)
(* INTEGER that is no u16 (the column is INTEGER NOT NULL, 64 bits wide).  *)

\* Port values outside u16: below 0, the first above, and one that is a
\* sample profile's port (3306) modulo 2^16.
StoredPorts == {-1, U16_MAX + 1, U16_MAX + 1 + 3306}

\* main.rs opens the store on a file its passphrase wrote, the port column of
\* the row numbered damaged (none if 0) changed since.
InitStoredPort ==
    /\ \E indexes \in FileProfiles :
          \E damaged \in 0..Cardinality(indexes), port \in StoredPorts :
              LET file == File(indexes, DefaultPassphrase, 0, NoDefect)
              IN  /\ damaged = 0 => port = -1
                  /\ table = [i \in DOMAIN file |->
                                 IF i = damaged THEN [file[i] EXCEPT !.port = port]
                                 ELSE file[i]]
    /\ NoTests
    /\ encryption_key = KeyFromPassphrase(DefaultPassphrase)
    /\ rng = 0
    /\ now = 0
    /\ mutex = 0
    /\ pc = [p \in Procs |-> "idle"]
    /\ request = [p \in Procs |-> NoRequest]
    /\ response = [p \in Procs |-> NoResponse]
    /\ lastSave = [id \in Ids |-> None]
    /\ serialStore = table
    /\ serialResp = [p \in Procs |-> NoResponse]
    /\ StoreOpened

\* The reads of a store opened on such a file.
SpecStoredPort == InitStoredPort /\ [][NextOpened]_vars

----------------------------------------------------------------------------
(* The lifetime of a store: the file starts without the table, a store is  *)
(* opened on it with ConnectionStore::new, used by one caller as the tests *)
(* use theirs, dropped when the process ends, and the file is opened       *)
(* again, with the same passphrase or another.                             *)

\* Cap on the number of stores opened on the file, one after the other.
MaxOpens == 2

\* "a_passphrase_longer_than_32_bytes_by_eight", 42 bytes.
LongPassphrase ==
    <<97, 95, 112, 97, 115, 115, 112, 104, 114, 97, 115, 101, 95, 108, 111, 110,
      103, 101, 114, 95, 116, 104, 97, 110, 95, 51, 50, 95, 98, 121, 116, 101,
      115, 95, 98, 121, 95, 101, 105, 103, 104, 116>>

\* The passphrases new is called with: of 29 bytes (padded) and 42 (cut).
NewPassphrases == {DefaultPassphrase, LongPassphrase}

\* The invocation that uses the store.
Caller == 1

\* No store instance: the value of encryption_key while none exists.
NoStore == <<>>

\* The file does not hold the table and no store is open on it.  The clock
\* stands at its last value: every row gets the same created_at.
InitLifecycle ==
    /\ NoTests
    /\ table = <<>>
    /\ has_table = FALSE
    /\ store_open = FALSE
    /\ opened_with = <<>>
    /\ encryption_key = NoStore
    /\ rng = 0
    /\ now = MaxTime
    /\ mutex = 0
    /\ pc = [p \in Procs |-> "idle"]
    /\ request = [p \in Procs |-> NoRequest]
    /\ response = [p \in Procs |-> NoResponse]
    /\ lastSave = [id \in Ids |-> None]
    /\ serialStore = <<>>
    /\ serialResp = [p \in Procs |-> NoResponse]
    /\ remote = [p \in Procs |-> NoRemote]
    /\ paging = NoPaging

\* ConnectionStore::new(db_path, encryption_key) returns Ok.
New ==
    /\ ~store_open
    /\ Len(opened_with) < MaxOpens
    /\ \E encryption_key_str \in NewPassphrases :
          LET opened == new(has_table, table, encryption_key_str, TRUE)
          IN  /\ opened.ok
              /\ table' = opened.table
              /\ has_table' = opened.has_table
              /\ encryption_key' = opened.key
              /\ opened_with' = Append(opened_with, encryption_key_str)
    /\ store_open' = TRUE
    /\ UNCHANGED <<rng, now, mutex, pc, request, response, lastSave, serialStore,
                   serialResp, remote, paging>>
    /\ UNCHANGED testVars

\* The store is dropped (the process ends): a call in progress returns to
\* nobody, and the serial run of the history goes on from the file as it is.
DropStore ==
    /\ store_open
    /\ store_open' = FALSE
    /\ encryption_key' = NoStore
    /\ mutex' = 0
    /\ pc' = [p \in Procs |-> "idle"]
    /\ request' = [p \in Procs |-> NoRequest]
    /\ response' = [p \in Procs |-> NoResponse]
    /\ serialResp' = [p \in Procs |-> NoResponse]
    /\ serialStore' = table
    /\ UNCHANGED <<table, has_table, opened_with, rng, now, lastSave, remote, paging>>
    /\ UNCHANGED testVars

NextLifecycle ==
    \/ New
    \/ DropStore
    \/ store_open /\ CmdSaveConnection(Caller)
    \/ store_open /\ CmdLoadConnection(Caller)
    \/ store_open /\ CmdListConnections(Caller)
    \/ store_open /\ CmdDeleteConnection(Caller)
    \/ store_open /\ StoreCall(Caller, TRUE)
    \/ store_open /\ Return(Caller)

\* A file through the stores opened on it.
SpecLifecycle == InitLifecycle /\ [][NextLifecycle]_vars

----------------------------------------------------------------------------
(* commands: test_connection, and the commands that load a profile from    *)
(* the store and then work on the remote server with a MySQLAdapter.       *)

\* Mutant of test_connection: the username checked before the host.
TestConnectionUsernameFirst(connection) ==
    IF connection.username = "" THEN [ok |-> FALSE, val |-> <<>>, err |-> "Username is required"]
    ELSE IF connection.host = "" THEN [ok |-> FALSE, val |-> <<>>, err |-> "Host is required"]
    ELSE [ok |-> TRUE,
          val |-> <<"Connection test successful to " \o connection.username \o "@"
                    \o connection.host \o ":" \o ToString(connection.port)>>,
          err |-> ""]

\* commands::test_connection: Err(message) or Ok(message), val holding the message.
test_connection(connection) ==
    IF connection.host = "" THEN [ok |-> FALSE, val |-> <<>>, err |-> "Host is required"]
    ELSE IF connection.username = "" THEN [ok |-> FALSE, val |-> <<>>, err |-> "Username is required"]
    ELSE [ok |-> TRUE,
          val |-> <<"Connection test successful to " \o connection.username \o "@"
                    \o connection.host \o ":" \o ToString(connection.port)>>,
          err |-> ""]

\* The profiles test_connection is invoked with: host and username each
\* empty or not.
TestedConnections ==
    {[SampleConnections[1] EXCEPT !.host = host, !.username = username] :
        host \in {"", "localhost"}, username \in {"", "root"}}

\* The commands that work on the remote server.
RemoteCommands ==
    {"execute_query", "list_databases", "get_schema", "get_autocomplete_data",
     "get_table_structure", "get_table_data", "insert_table_row", "update_table_row",
     "delete_table_rows"}

\* StoreError's Display, as map_err(|e| e.to_string()) renders it, up to the
\* message it wraps.
StoreErrorToString(kind) ==
    IF kind = "NotFound" THEN "Connection not found: " ELSE kind \o " error: "

\* Mutant of GuardAfterLoad: the guard bound to a variable that lives to the
\* end of the command.
GuardKept(p) == p

\* The holder of the mutex when the let statement of the load ends: the
\* MutexGuard is a temporary of that statement and is dropped with it.
GuardAfterLoad(p) == 0

\* Mutant of OkOrElse: a missing profile replaced by a default one.
OkOrDefault(loaded, id) ==
    IF ~loaded.ok THEN [ok |-> FALSE, val |-> <<>>, err |-> StoreErrorToString(loaded.err)]
    ELSE IF loaded.val = None THEN Ok(<<[SampleConnections[1] EXCEPT !.id = id]>>)
    ELSE loaded

\* .map_err(|e| e.to_string())?.ok_or_else(|| format!("Connection not found: {}", id))
\* on the Result<Option<Connection>> of load_connection.
OkOrElse(loaded, id) ==
    IF ~loaded.ok THEN [ok |-> FALSE, val |-> <<>>, err |-> StoreErrorToString(loaded.err)]
    ELSE IF loaded.val = None
        THEN [ok |-> FALSE, val |-> <<>>, err |-> "Connection not found: " \o id]
    ELSE loaded

\* commands::test_connection: the whole command; it takes no State.
CmdTestConnection(p) ==
    /\ pc[p] = "idle"
    /\ \E connection \in TestedConnections :
          /\ request' = [request EXCEPT ![p] = [op |-> "test_connection",
                                                connection |-> Some(connection),
                                                id |-> connection.id]]
          /\ response' = [response EXCEPT ![p] = test_connection(connection)]
    /\ pc' = [pc EXCEPT ![p] = "answered"]
    /\ UNCHANGED <<table, encryption_key, rng, now, mutex, lastSave, serialStore, serialResp>>
    /\ UNCHANGED testVars
    /\ UNCHANGED appVars

\* A remote command up to state.connection_store.lock(): the invocation
\* takes the guard, to load the profile of connection_id.
RemoteLock(p, command, connection_id) ==
    /\ pc[p] = "idle"
    /\ MutexFree
    /\ mutex' = p
    /\ pc' = [pc EXCEPT ![p] = "locked"]
    /\ request' = [request EXCEPT ![p] = [op |-> "load", connection |-> None,
                                          id |-> connection_id]]
    /\ remote' = [remote EXCEPT ![p] = [active |-> TRUE,
                                        database_required |-> command = "get_schema",
                                        connection |-> None]]
    /\ serialResp' = [serialResp EXCEPT ![p] =
                          load_connection(serialStore, encryption_key, connection_id, TRUE).res]
    /\ UNCHANGED <<table, encryption_key, rng, now, response, lastSave, serialStore>>
    /\ UNCHANGED <<has_table, store_open, opened_with, paging>>
    /\ UNCHANGED testVars

\* execute_query, list_databases, get_schema, get_autocomplete_data and the
\* table commands, up to the lock.
CmdRemote(p) ==
    \E command \in RemoteCommands, connection_id \in Ids :
        RemoteLock(p, command, connection_id)

\* The end of the let statement of a remote command: the guard is dropped,
\* the result of load_connection goes through ? and ok_or_else, and, in
\* get_schema, the profile's database through ok_or_else; an Err returns,
\* else the command goes on to MySQLAdapter::new(&connection).await.
RemoteLoaded(p) ==
    /\ pc[p] = "returned"
    /\ remote[p].active
    /\ mutex' = GuardAfterLoad(p)
    /\ LET connection == OkOrElse(response[p], request[p].id)
       IN  IF ~connection.ok
               THEN /\ response' = [response EXCEPT ![p] = connection]
                    /\ pc' = [pc EXCEPT ![p] = "answered"]
                    /\ remote' = remote
           ELSE IF remote[p].database_required /\ connection.val[1].database = None
               THEN /\ response' = [response EXCEPT ![p] =
                                       [ok |-> FALSE, val |-> <<>>,
                                        err |-> "No database specified"]]
                    /\ pc' = [pc EXCEPT ![p] = "answered"]
                    /\ remote' = remote
           ELSE /\ response' = [response EXCEPT ![p] = NoResponse]
                /\ pc' = [pc EXCEPT ![p] = "connecting"]
                /\ remote' = [remote EXCEPT ![p].connection = connection.val]
    /\ UNCHANGED <<table, encryption_key, rng, now, request, lastSave, serialStore,
                   serialResp>>
    /\ UNCHANGED <<has_table, store_open, opened_with, paging>>
    /\ UNCHANGED testVars

\* What the remote server's part of a command comes to: the result, or the
\* DatabaseError of MySQLAdapter::new or of the query.
RemoteOutcomes == {"", "Connection error: ", "Query error: "}

\* MySQLAdapter::new(&connection).await and the adapter call: the remote
\* server answers, or the connection or the query fails.
RemoteAnswer(p) ==
    /\ pc[p] = "connecting"
    /\ \E outcome \in RemoteOutcomes :
          response' = [response EXCEPT ![p] =
                          [ok |-> outcome = "", val |-> <<>>, err |-> outcome]]
    /\ pc' = [pc EXCEPT ![p] = "answered"]
    /\ UNCHANGED <<table, encryption_key, rng, now, mutex, request, lastSave,
                   serialStore, serialResp>>
    /\ UNCHANGED appVars
    /\ UNCHANGED testVars

\* A command that holds no guard returns its result.
Answered(p) ==
    /\ pc[p] = "answered"
    /\ pc' = [pc EXCEPT ![p] = "idle"]
    /\ request' = [request EXCEPT ![p] = NoRequest]
    /\ response' = [response EXCEPT ![p] = NoResponse]
    /\ serialResp' = [serialResp EXCEPT ![p] = NoResponse]
    /\ remote' = [remote EXCEPT ![p] = NoRemote]
    /\ UNCHANGED <<table, encryption_key, rng, now, mutex, lastSave, serialStore>>
    /\ UNCHANGED <<has_table, store_open, opened_with, paging>>
    /\ UNCHANGED testVars

\* The invocation that runs test_connection and the remote commands; the
\* others run the commands of the store.
RemoteCaller == 1

\* main.rs: as Init, the clock standing at its last value (every row gets
\* the same created_at).
InitApp ==
    /\ NoTests
    /\ table = <<>>
    /\ encryption_key = KeyFromPassphrase(DefaultPassphrase)
    /\ rng = 0
    /\ now = MaxTime
    /\ mutex = 0
    /\ pc = [p \in Procs |-> "idle"]
    /\ request = [p \in Procs |-> NoRequest]
    /\ response = [p \in Procs |-> NoResponse]
    /\ lastSave = [id \in Ids |-> None]
    /\ serialStore = <<>>
    /\ serialResp = [p \in Procs |-> NoResponse]
    /\ StoreOpened

\* The commands main.rs registers.
NextApp ==
    \/ \E p \in Procs \ {RemoteCaller} :
          \/ CmdSaveConnection(p)
          \/ CmdLoadConnection(p)
          \/ CmdListConnections(p)
          \/ CmdDeleteConnection(p)
          \/ Return(p)
    \/ \E p \in Procs : StoreCall(p, TRUE)
    \/ CmdTestConnection(RemoteCaller)
    \/ CmdRemote(RemoteCaller)
    \/ RemoteLoaded(RemoteCaller)
    \/ RemoteAnswer(RemoteCaller)
    \/ Answered(RemoteCaller)

\* The application: one invocation running test_connection and the remote
\* commands beside the invocations of the store's commands.
SpecApp == InitApp /\ [][NextApp]_vars

----------------------------------------------------------------------------
(* db/mysql_adapter.rs: the paginated reads.                               *)
(* A u32 is the sequence of its four bytes, least significant first: the   *)
(* product of two u32 needs 64 bits.                                       *)

\* The small pages and page sizes run over 0..MaxPage.
MaxPage == 2

U8_RANGE == 256
U32_BYTES == 4

\* The u32 of value hi * 65536 + lo, for hi and lo below 65536.
u32_from(hi, lo) ==
    <<lo % U8_RANGE, lo \div U8_RANGE, hi % U8_RANGE, hi \div U8_RANGE>>


\* The sum of a[i] * b[j] over the bytes with i + j = k + 1, from byte i of a on.
RECURSIVE ColumnSum(_, _, _, _)
ColumnSum(a, b, k, i) ==
    IF i > Len(a) THEN 0
    ELSE (IF k + 1 - i \in DOMAIN b THEN a[i] * b[k + 1 - i] ELSE 0)
         + ColumnSum(a, b, k, i + 1)

\* The bytes k.. of the product of a and b, carry coming in from byte k - 1.
RECURSIVE ProductFrom(_, _, _, _)
ProductFrom(a, b, k, carry) ==
    IF k > Len(a) + Len(b) THEN <<>>
    ELSE LET t == ColumnSum(a, b, k, 1) + carry
         IN  <<t % U8_RANGE>> \o ProductFrom(a, b, k + 1, t \div U8_RANGE)

\* The product of two u32 as a mathematical integer, in eight bytes.
ExactProduct(a, b) == ProductFrom(a, b, 1, 0)

\* a divided by ten, from byte i down, r carried in from the bytes above:
\* the quotient's bytes 1..i and the remainder.
RECURSIVE DivTen(_, _, _)
DivTen(a, i, r) ==
    IF i = 0 THEN [q |-> <<>>, r |-> r]
    ELSE LET cur == r * U8_RANGE + a[i]
             rest == DivTen(a, i - 1, cur % 10)
         IN  [q |-> rest.q \o <<cur \div 10>>, r |-> rest.r]

RECURSIVE Digits(_)
Digits(a) ==
    IF \A i \in DOMAIN a : a[i] = 0 THEN ""
    ELSE LET d == DivTen(a, Len(a), 0) IN Digits(d.q) \o ToString(d.r)

\* Display of an unsigned integer ("{}"): its decimal digits.
Display(a) == IF Digits(a) = "" THEN "0" ELSE Digits(a)

\* page * page_size on u32: the low 32 bits of the product when it fits;
\* when it does not, a panic in a build with overflow checks (the dev
\* profile) and the low 32 bits in a build without (the release profile).
MulU32(a, b, overflow_checks) ==
    LET exact == ExactProduct(a, b)
        fits == \A k \in (U32_BYTES + 1)..Len(exact) : exact[k] = 0
    IN  IF ~fits /\ overflow_checks
            THEN [panic |-> TRUE, val |-> <<>>]
            ELSE [panic |-> FALSE, val |-> SubSeq(exact, 1, U32_BYTES)]

MultiplyOverflow == "attempt to multiply with overflow"

\* MySQLAdapter::execute_paginated up to execute_query: the statement sent.
execute_paginated(sql, page, page_size, overflow_checks) ==
    LET offset == MulU32(page, page_size, overflow_checks)
    IN  IF offset.panic THEN Err(MultiplyOverflow)
        ELSE Ok(<<sql \o " LIMIT " \o Display(page_size)
                      \o " OFFSET " \o Display(offset.val)>>)

\* The grave accent that quotes an identifier in the statements; a TLA+
\* string cannot hold the character, a tilde stands for it.
GRAVE == "~"

\* The condition of one filter of a TableDataRequest.
FilterCondition(filter) ==
    LET column == GRAVE \o filter.column \o GRAVE
        quoted == "'" \o filter.value \o "'"
        like == "'%" \o filter.value \o "%'"
        list == "(" \o filter.value \o ")"
    IN  CASE filter.operator = "Equals" -> column \o " = " \o quoted
          [] filter.operator = "NotEquals" -> column \o " != " \o quoted
          [] filter.operator = "GreaterThan" -> column \o " > " \o quoted
          [] filter.operator = "LessThan" -> column \o " < " \o quoted
          [] filter.operator = "GreaterThanOrEqual" -> column \o " >= " \o quoted
          [] filter.operator = "LessThanOrEqual" -> column \o " <= " \o quoted
          [] filter.operator = "Like" -> column \o " LIKE " \o like
          [] filter.operator = "NotLike" -> column \o " NOT LIKE " \o like
          [] filter.operator = "In" -> column \o " IN " \o list
          [] filter.operator = "NotIn" -> column \o " NOT IN " \o list
          [] filter.operator = "IsNull" -> column \o " IS NULL"
          [] filter.operator = "IsNotNull" -> column \o " IS NOT NULL"

\* where_conditions.join(" AND ")
RECURSIVE JoinAnd(_)
JoinAnd(conditions) ==
    IF conditions = <<>> THEN ""
    ELSE IF Len(conditions) = 1 THEN conditions[1]
    ELSE conditions[1] \o " AND " \o JoinAnd(Tail(conditions))

\* The query of get_table_data before its pagination: the table, the
\* filters and the sorting.
TableQuery(table_request) ==
    LET where_conditions ==
            IF table_request.filters = None THEN <<>>
            ELSE [i \in DOMAIN table_request.filters[1] |-> FilterCondition(table_request.filters[1][i])]
        filtered ==
            "SELECT * FROM " \o GRAVE \o table_request.table \o GRAVE
                \o (IF where_conditions # <<>>
                        THEN " WHERE " \o JoinAnd(where_conditions) ELSE "")
        order == IF table_request.sort_order = Some("Desc") THEN "DESC" ELSE "ASC"
    IN  IF table_request.sort_by # None
            THEN filtered \o " ORDER BY " \o GRAVE \o table_request.sort_by[1] \o GRAVE
                          \o " " \o order
            ELSE filtered

\* MySQLAdapter::get_table_data up to the fetch of the rows: an error of
\* switch_database or of the count query, else the statement sent.
get_table_data(table_request, server_ok, overflow_checks) ==
    LET offset == MulU32(table_request.page, table_request.page_size, overflow_checks)
    IN  IF ~server_ok THEN Err("Query error: ")
        ELSE IF offset.panic THEN Err(MultiplyOverflow)
        ELSE Ok(<<TableQuery(table_request) \o " LIMIT " \o Display(table_request.page_size)
                      \o " OFFSET " \o Display(offset.val)>>)

\* The pages and page sizes of the requests: the small ones, and those
\* around the square root of 2^32 and at the top of u32.
Pages ==
    {u32_from(0, n) : n \in 0..MaxPage}
        \cup {u32_from(0, 65535), u32_from(1, 0), u32_from(65535, 65535)}

\* The sql of the QueryRequests.
SampleSql == "SELECT * FROM users"

\* The filters and the sorting of the TableDataRequests.
SampleFilters ==
    {None,
     Some(<<[column |-> "id", operator |-> "GreaterThan", value |-> "7"],
            [column |-> "email", operator |-> "IsNotNull", value |-> ""]>>)}
SampleSorts ==
    {[sort_by |-> None, sort_order |-> None],
     [sort_by |-> Some("name"), sort_order |-> None],
     [sort_by |-> Some("name"), sort_order |-> Some("Desc")]}

\* commands::execute_query after MySQLAdapter::new: with a page and a
\* page_size execute_paginated, else the sql as it is.
ExecuteQuery ==
    /\ paging.call = "none"
    /\ \E page \in {None} \cup {Some(n) : n \in Pages},
          page_size \in {None} \cup {Some(n) : n \in Pages} :
          paging' = [paging EXCEPT
                        !.call = "execute_query",
                        !.base = SampleSql,
                        !.page = page,
                        !.page_size = page_size,
                        !.res = IF page # None /\ page_size # None
                                    THEN execute_paginated(SampleSql, page[1], page_size[1],
                                                           paging.overflow_checks)
                                    ELSE Ok(<<SampleSql>>)]
    /\ UNCHANGED <<table, encryption_key, rng, now, mutex, pc, request, response,
                   lastSave, serialStore, serialResp>>
    /\ UNCHANGED <<has_table, store_open, opened_with, remote>>
    /\ UNCHANGED testVars

\* commands::get_table_data after MySQLAdapter::new.
GetTableData ==
    /\ paging.call = "none"
    /\ \E page \in Pages, page_size \in Pages, filters \in SampleFilters,
          sort \in SampleSorts, server_ok \in BOOLEAN :
          LET table_request == [table |-> "users", page |-> page, page_size |-> page_size,
                                filters |-> filters, sort_by |-> sort.sort_by,
                                sort_order |-> sort.sort_order]
          IN  paging' = [paging EXCEPT
                            !.call = "get_table_data",
                            !.base = TableQuery(table_request),
                            !.page = Some(page),
                            !.page_size = Some(page_size),
                            !.res = get_table_data(table_request, server_ok,
                                                   paging.overflow_checks)]
    /\ UNCHANGED <<table, encryption_key, rng, now, mutex, pc, request, response,
                   lastSave, serialStore, serialResp>>
    /\ UNCHANGED <<has_table, store_open, opened_with, remote>>
    /\ UNCHANGED testVars

\* The read is over: its result has gone to the caller, or its task has
\* ended in the panic.
PagingDone ==
    /\ paging.call # "none"
    /\ paging' = [NoPaging EXCEPT !.overflow_checks = paging.overflow_checks]
    /\ UNCHANGED <<table, encryption_key, rng, now, mutex, pc, request, response,
                   lastSave, serialStore, serialResp>>
    /\ UNCHANGED <<has_table, store_open, opened_with, remote>>
    /\ UNCHANGED testVars

\* The application after its setup, built with or without overflow checks.
InitPaging ==
    /\ NoTests
    /\ table = <<>>
    /\ encryption_key = KeyFromPassphrase(DefaultPassphrase)
    /\ rng = 0
    /\ now = 0
    /\ mutex = 0
    /\ pc = [p \in Procs |-> "idle"]
    /\ request = [p \in Procs |-> NoRequest]
    /\ response = [p \in Procs |-> NoResponse]
    /\ lastSave = [id \in Ids |-> None]
    /\ serialStore = <<>>
    /\ serialResp = [p \in Procs |-> NoResponse]
    /\ has_table = TRUE
    /\ store_open = TRUE
    /\ opened_with = <<DefaultPassphrase>>
    /\ remote = [p \in Procs |-> NoRemote]
    /\ \E overflow_checks \in BOOLEAN :
          paging = [NoPaging EXCEPT !.overflow_checks = overflow_checks]

NextPaging == ExecuteQuery \/ GetTableData \/ PagingDone

\* The paginated reads of a connected adapter.
SpecPaging == InitPaging /\ [][NextPaging]_vars

----------------------------------------------------------------------------
(* storage/encryption.rs called directly, as its tests call it: encrypt    *)
(* some times with one text and key, then one decrypt of what it returned, *)
(* as returned, after the storage encoding and back, cut short, or with a  *)
(* byte changed.                                                           *)

\* The texts encrypted: "", "password", "sensitive_password_123" and "é!".
Plaintexts ==
    { <<>>,
      <<112, 97, 115, 115, 119, 111, 114, 100>>,
      <<115, 101, 110, 115, 105, 116, 105, 118, 101, 95, 112, 97, 115, 115, 119,
        111, 114, 100, 95, 49, 50, 51>>,
      <<195, 169, 33>> }

\* generate_key(): 32 bytes of OsRng; here the two passphrase keys and a key
\* that differs from the first in its last byte only.
TestKeys ==
    { KeyFromPassphrase(DefaultPassphrase),
      KeyFromPassphrase(TestPassphrase),
      [KeyFromPassphrase(DefaultPassphrase) EXCEPT ![KEY_SIZE] = 1] }

\* What is added to a byte of an envelope to change it.
ByteChanges == {1, 128}

\* The tests start on a store that is not used.
InitCipher ==
    /\ test_plaintext \in Plaintexts
    /\ test_key \in TestKeys
    /\ encrypted = <<>>
    /\ decrypted = NoDecrypt
    /\ derived = <<>>
    /\ table = <<>>
    /\ encryption_key = KeyFromPassphrase(DefaultPassphrase)
    /\ rng = 0
    /\ now = 0
    /\ mutex = 0
    /\ pc = [p \in Procs |-> "idle"]
    /\ request = [p \in Procs |-> NoRequest]
    /\ response = [p \in Procs |-> NoResponse]
    /\ lastSave = [id \in Ids |-> None]
    /\ serialStore = <<>>
    /\ serialResp = [p \in Procs |-> NoResponse]
    /\ StoreOpened

\* The variables of the store and its commands.
storeVars == <<table, encryption_key, now, mutex, pc, request, response,
               lastSave, serialStore, serialResp,
               has_table, store_open, opened_with, remote, paging>>

\* encrypt(plaintext, &key): draws the next nonce.
Encrypt ==
    /\ decrypted = NoDecrypt
    /\ Len(encrypted) < MaxDraws
    /\ encrypted' = Append(encrypted, encrypt(test_plaintext, test_key, OsRngNonce(rng)))
    /\ rng' = rng + 1
    /\ UNCHANGED <<test_plaintext, test_key, decrypted, derived>>
    /\ UNCHANGED storeVars

\* decrypt(&data, &key), data made in the way how says.
Decrypt(how, data, key) ==
    /\ decrypted = NoDecrypt
    /\ decrypted' = [how |-> how, data |-> data, key |-> key, res |-> decrypt(data, key)]
    /\ UNCHANGED <<test_plaintext, test_key, encrypted, derived, rng>>
    /\ UNCHANGED storeVars

\* decrypt of an envelope as encrypt returned it, under any key.
DecryptReturned ==
    \E i \in DOMAIN encrypted, key \in TestKeys :
        encrypted[i].ok /\ Decrypt("returned", encrypted[i].val, key)

\* decrypt of decode_encrypted(encode_encrypted(envelope)), under any key.
DecryptStored ==
    \E i \in DOMAIN encrypted, key \in TestKeys :
        LET decoded == decode_encrypted(encode_encrypted(encrypted[i].val))
        IN  encrypted[i].ok /\ decoded.ok /\ Decrypt("stored", decoded.val, key)

\* decrypt of the first bytes of an envelope, fewer than a nonce.
DecryptShort ==
    \E i \in DOMAIN encrypted, n \in 0..(NONCE_SIZE - 1) :
        encrypted[i].ok /\ Decrypt("short", SubSeq(encrypted[i].val, 1, n), test_key)

\* decrypt of an envelope with one byte changed.
DecryptAltered ==
    \E i \in DOMAIN encrypted :
        /\ encrypted[i].ok
        /\ \E at \in DOMAIN encrypted[i].val, change \in ByteChanges :
              Decrypt("altered",
                      [encrypted[i].val EXCEPT ![at] = (@ + change) % 256], test_key)

NextCipher ==
    \/ Encrypt
    \/ DecryptReturned
    \/ DecryptStored
    \/ DecryptShort
    \/ DecryptAltered

\* The direct calls of encrypt, decrypt, encode_encrypted and decode_encrypted.
SpecCipher == InitCipher /\ [][NextCipher]_vars

----------------------------------------------------------------------------
(* derive_key_from_password called directly, as its tests call it.         *)

\* The passwords: "password" and "pw".
Passwords == { <<112, 97, 115, 115, 119, 111, 114, 100>>, <<112, 119>> }

\* A salt of n bytes.
SaltOfLength(n) == [i \in 1..n |-> (i * 29 + n) % 256]

\* The salts: "salt1_12345678901234" and "salt2_12345678901234" of the tests,
\* and salts of 0, 15, 16, 48 and 49 bytes.
Salts ==
    { <<115, 97, 108, 116, 49, 95, 49, 50, 51, 52, 53, 54, 55, 56, 57, 48, 49, 50, 51, 52>>,
      <<115, 97, 108, 116, 50, 95, 49, 50, 51, 52, 53, 54, 55, 56, 57, 48, 49, 50, 51, 52>> }
    \cup {SaltOfLength(n) : n \in {0, MIN_SALT_SIZE - 1, MIN_SALT_SIZE, 48, 49}}

\* The lengths of the hashes a hasher can be set up to return (Output holds
\* 10 to 64 bytes); Argon2::default() returns ARGON2_DEFAULT_OUTPUT_LEN.
OutputLens == {16, ARGON2_DEFAULT_OUTPUT_LEN, 64}

\* The tests start with no key derived, on a store that is not used.
InitKdf ==
    /\ derived = <<>>
    /\ test_plaintext = <<>>
    /\ test_key = <<>>
    /\ encrypted = <<>>
    /\ decrypted = NoDecrypt
    /\ table = <<>>
    /\ encryption_key = KeyFromPassphrase(DefaultPassphrase)
    /\ rng = 0
    /\ now = 0
    /\ mutex = 0
    /\ pc = [p \in Procs |-> "idle"]
    /\ request = [p \in Procs |-> NoRequest]
    /\ response = [p \in Procs |-> NoResponse]
    /\ lastSave = [id \in Ids |-> None]
    /\ serialStore = <<>>
    /\ serialResp = [p \in Procs |-> NoResponse]
    /\ StoreOpened

\* A call of the function's body with a hasher of the given output length.
DeriveCall(output_len, password, salt) ==
    /\ Len(derived) < MaxDerivations
    /\ derived' = Append(derived,
                         [password |-> password, salt |-> salt, output_len |-> output_len,
                          res |-> DeriveKeyWith(output_len, password, salt)])
    /\ UNCHANGED <<test_plaintext, test_key, encrypted, decrypted, rng>>
    /\ UNCHANGED storeVars

\* derive_key_from_password(password, salt)
Derive ==
    \E password \in Passwords, salt \in Salts :
        DeriveCall(ARGON2_DEFAULT_OUTPUT_LEN, password, salt)

\* The same body run with a hasher set up for another output length.
DeriveWithHasher ==
    \E output_len \in OutputLens \ {ARGON2_DEFAULT_OUTPUT_LEN} :
        \E password \in Passwords, salt \in Salts :
            DeriveCall(output_len, password, salt)

NextKdf == Derive

\* The direct calls of derive_key_from_password.
SpecKdf == InitKdf /\ [][NextKdf]_vars

NextKdfHasher == Derive \/ DeriveWithHasher

\* As SpecKdf, with the hasher's output length left open: the branches of the
\* body that Argon2::default() does not reach are taken too.
SpecKdfHasher == InitKdf /\ [][NextKdfHasher]_vars

----------------------------------------------------------------------------
(* Properties *)

\* The step in which invocation p's store call runs.
CallStep(p, op) == pc[p] = "locked" /\ pc'[p] = "returned" /\ request[p].op = op

\* Invocation p has its result and still holds the guard.
Returned(p, op) == pc[p] = "returned" /\ request[p].op = op

\* What load would answer in the current state, with a working engine.
LoadNow(id) == load_connection(table, encryption_key, id, TRUE).res

\* What list would answer in the current state, with a working engine.
ListNow == list_connections(table, encryption_key, TRUE).res

\* The ids with a saved profile that was not deleted since.
LiveIds == {id \in Ids : lastSave[id] # None}

\* C1: after any saves and deletes the table holds at most one row per id, and
\* load(id) answers exactly the profile of the last save(id) no delete(id)
\* followed, every field from that save (None when there is none).
C1_UpsertByLastSave ==
    \A id \in Ids :
        /\ Len(RowsWithId(table, id)) <= 1
        /\ LoadNow(id) = Ok(lastSave[id])

\* C1 witness: three saves left two rows (an id was saved again), and a load
\* command returned the profile last saved under its id.
C1_Witness ==
    /\ rng = 3
    /\ Len(table) = 2
    /\ \E p \in Procs :
          /\ Returned(p, "load")
          /\ lastSave[request[p].id] # None
          /\ response[p] = Ok(lastSave[request[p].id])

\* C2: a successful save(P) of a profile with a non-empty secret leaves a store
\* in which load(P.id) returns P, equal in every field including the secret.
C2_SaveLoadRoundTrip ==
    [][\A p \in Procs :
          (/\ CallStep(p, "save")
           /\ response'[p].ok
           /\ request[p].connection[1].password # <<>>)
          => load_connection(table', encryption_key', request[p].id, TRUE).res
                = Ok(request[p].connection)]_vars

\* C2 witness: a load command returned the sample profile that has a secret,
\* an SSH and a TLS configuration, equal to what was saved.
C2_Witness ==
    \E p \in Procs :
        /\ Returned(p, "load")
        /\ response[p] = Ok(<<SampleConnections[2]>>)
        /\ lastSave["c1"] = <<SampleConnections[2]>>

\* C3: every stored password column is the base64 text of an envelope that
\* encrypt made of the profile's secret under the store's key with a nonce drawn
\* so far; it differs from the plaintext and is strictly longer.
C3_SecretEncryptedAtRest ==
    \A i \in DOMAIN table :
        /\ lastSave[table[i].id] # None
        /\ LET secret == lastSave[table[i].id][1].password
           IN  /\ \E n \in 0..(rng - 1) :
                     table[i].password
                        = encode_encrypted(encrypt(secret, encryption_key, OsRngNonce(n)).val)
               /\ table[i].password # secret
               /\ Len(table[i].password) > Len(secret)

\* C3 witness: rows for a two-byte secret and for the empty secret are stored.
C3_Witness ==
    /\ Len(table) = 2
    /\ \E i \in DOMAIN table : lastSave[table[i].id] = <<SampleConnections[1]>>
    /\ \E i \in DOMAIN table : lastSave[table[i].id] = <<SampleConnections[3]>>

\* C4: load of an id without a row answers Ok(None), never an error, and no
\* store call ever answers StoreError::NotFound.
C4_MissingIsNotAnError ==
    /\ \A id \in Ids : RowsWithId(table, id) = <<>> => LoadNow(id) = Ok(None)
    /\ \A p \in Procs :
          /\ response[p].err # "NotFound"
          /\ (Returned(p, "load") /\ RowsWithId(table, request[p].id) = <<>>)
                => response[p] = Ok(None)

\* C4 witness: a load command returned Ok(None) on a table emptied by a delete.
C4_Witness ==
    /\ rng >= 1
    /\ table = <<>>
    /\ \E p \in Procs : Returned(p, "load") /\ response[p] = Ok(None)

\* C5: delete(id) succeeds whether or not the id has a row; afterwards no row has
\* that id, load(id) answers not-found, every other row is kept in place, and an
\* absent id leaves the table as it was.  An id without a row gets one again only
\* by a save of that id.
C5_DeleteRemovesOrNoOp ==
    [][/\ \A p \in Procs :
            CallStep(p, "delete") =>
                LET id == request[p].id
                IN  /\ response'[p] = Ok(<<>>)
                    /\ \A i \in DOMAIN table' : table'[i].id # id
                    /\ Range(table') = {r \in Range(table) : r.id # id}
                    /\ Len(table') = Len(table) - Len(RowsWithId(table, id))
                    /\ load_connection(table', encryption_key', id, TRUE).res = Ok(None)
                    /\ (RowsWithId(table, id) = <<>> => table' = table)
       /\ \A id \in Ids :
            (RowsWithId(table, id) = <<>> /\ RowsWithId(table', id) # <<>>)
                => \E p \in Procs : CallStep(p, "save") /\ request[p].id = id]_vars

\* C5 witness: a delete command returned with one row left in the table and its
\* own id gone, after two saves.
C5_Witness ==
    /\ rng = 2
    /\ Len(table) = 1
    /\ \E p \in Procs :
          /\ Returned(p, "delete")
          /\ response[p].ok
          /\ table[1].id # request[p].id

\* C6: list answers Ok with every live profile exactly once and nothing else;
\* its length is the number of ids saved and not deleted since (zero on an
\* empty store).
C6_ListIsComplete ==
    LET listed == ListNow
    IN  /\ listed.ok
        /\ Len(listed.val) = Cardinality(LiveIds)
        /\ \A id \in LiveIds :
              Cardinality({i \in DOMAIN listed.val : listed.val[i] = lastSave[id][1]}) = 1
        /\ \A p \in Procs : Returned(p, "list") => response[p] = listed

\* C6 witness: a list command returned two profiles.
C6_Witness ==
    \E p \in Procs : Returned(p, "list") /\ response[p].ok /\ Len(response[p].val) = 2

\* C7: the profiles list answers are in ascending byte order of name, whatever
\* the order of the saves and updates.
C7_ListSortedByName ==
    LET listed == ListNow.val
    IN  \A i \in 1..(Len(listed) - 1) : BytesLeq(listed[i].name, listed[i + 1].name)

\* C7 witness: a list command returned two profiles in the opposite of the
\* order in which their rows were written.
C7_Witness ==
    \E p \in Procs :
        /\ Returned(p, "list")
        /\ Len(response[p].val) = 2
        /\ Len(table) = 2
        /\ response[p].val[1].id = table[2].id
        /\ response[p].val[1].name # response[p].val[2].name

\* The profiles a table decodes to, in rowid order.
Decoded(tbl) == CollectConnections(tbl, encryption_key)

\* C8: at most one command is inside its store call or holds a result under the
\* guard, and it is the holder of the mutex; every result equals the result of
\* running the commands one at a time in the order of the lock, and so does the
\* table once the guard is free.
C8_LockSerializesCommands ==
    /\ Cardinality({p \in Procs : pc[p] # "idle"}) <= 1
    /\ \A p \in Procs : pc[p] # "idle" => mutex = p
    /\ \A p \in Procs : pc[p] = "returned" => response[p] = serialResp[p]
    /\ (\A p \in Procs : pc[p] # "locked") => Decoded(table) = Decoded(serialStore)

\* C8 witness: the second invocation returned a listing of two profiles, so
\* commands ran before it.
C8_Witness ==
    /\ pc[2] = "returned"
    /\ request[2].op = "list"
    /\ response[2] = serialResp[2]
    /\ Len(response[2].val) = 2

\* C9: a save that fails leaves every row of the table as it was, a row of the
\* same id included; a save that succeeds leaves, in the one step of its
\* statement, exactly one complete row for the id.
C9_SaveNeverPartial ==
    [][\A p \in Procs :
          CallStep(p, "save") =>
              IF response'[p].ok
              THEN /\ Len(RowsWithId(table', request[p].id)) = 1
                   /\ into_connection(RawConnectionRow(RowsWithId(table', request[p].id)[1]),
                                      encryption_key')
                         = Ok(request[p].connection)
                   /\ RowsWithoutId(table', request[p].id)
                         = RowsWithoutId(table, request[p].id)
              ELSE table' = table]_vars

\* C9 witness: a save failed in the engine while the table holds another
\* profile under the same id.
C9_Witness ==
    \E p \in Procs :
        /\ Returned(p, "save")
        /\ response[p] = Err("Database")
        /\ lastSave[request[p].id] # None
        /\ lastSave[request[p].id] # request[p].connection
        /\ LoadNow(request[p].id) = Ok(lastSave[request[p].id])

\* C10: a save of an id that already has a row leaves the row's created_at as
\* it was.
C10_CreatedAtKept ==
    [][\A p \in Procs :
          (CallStep(p, "save") /\ RowsWithId(table, request[p].id) # <<>>)
          => /\ RowsWithId(table', request[p].id) # <<>>
             /\ RowsWithId(table', request[p].id)[1].created_at
                   = RowsWithId(table, request[p].id)[1].created_at]_vars

\* The text in the password column of the row with this id.
StoredSecret(tbl, id) == RowsWithId(tbl, id)[1].password

\* C11: every save that succeeds on an id that already has a row leaves a
\* stored secret text different from the one it found, whatever the profile
\* saved: also the one already stored, with the same secret.
C11_SaveReencrypts ==
    [][\A p \in Procs :
          (/\ CallStep(p, "save")
           /\ response'[p].ok
           /\ RowsWithId(table, request[p].id) # <<>>)
          => (/\ RowsWithId(table', request[p].id) # <<>>
              /\ StoredSecret(table', request[p].id) # StoredSecret(table, request[p].id))]_vars

\* An invocation holds the guard for a save of the profile that is stored
\* under its id, secret included, and encrypted under the store's key.
C11_Witness ==
    \E p \in Procs :
        /\ pc[p] = "locked"
        /\ request[p].op = "save"
        /\ RowsWithId(table, request[p].id) # <<>>
        /\ LoadNow(request[p].id) = Ok(<<request[p].connection[1]>>)
        /\ lastSave[request[p].id] = request[p].connection


\* The columns of a stored row that their own decoding step rejects under the
\* store's key: the secret (storage text, then envelope), the kind, the two
\* nested configurations.
SecretDefect(row) ==
    LET envelope == decode_encrypted(row.password)
    IN  ~envelope.ok \/ ~decrypt(envelope.val, encryption_key).ok

KindDefect(row) == row.db_type \notin {DebugDatabaseType(t) : t \in DatabaseType}

SshDefect(row) == row.ssh_config # None /\ ~SSHConfigFromJson(row.ssh_config[1]).ok

SslDefect(row) == row.ssl_config # None /\ ~SSLConfigFromJson(row.ssl_config[1]).ok

Undecodable(row) == SecretDefect(row) \/ KindDefect(row) \/ SshDefect(row) \/ SslDefect(row)

\* C12: while any stored row has a column that does not decode, list answers
\* an error and no profile at all, and load of a row with such a column
\* answers an error and no profile; so do the commands that returned.
C12_NoPartialDecode ==
    LET listed == ListNow
        corrupt == \E i \in DOMAIN table : Undecodable(table[i])
    IN  /\ corrupt => (~listed.ok /\ listed.val = <<>>)
        /\ \A id \in Ids :
              (RowsWithId(table, id) # <<>> /\ Undecodable(RowsWithId(table, id)[1]))
                  => (~LoadNow(id).ok /\ LoadNow(id).val = <<>>)
        /\ \A p \in Procs :
              /\ (Returned(p, "list") /\ corrupt)
                    => (~response[p].ok /\ response[p].val = <<>>)
              /\ (/\ Returned(p, "load")
                  /\ RowsWithId(table, request[p].id) # <<>>
                  /\ Undecodable(RowsWithId(table, request[p].id)[1]))
                    => (~response[p].ok /\ response[p].val = <<>>)

\* C12 witness: list returned an error on a table of one row that does not
\* decode and another that does.
C12_Witness ==
    /\ \E i \in DOMAIN table : Undecodable(table[i])
    /\ \E i \in DOMAIN table : ~Undecodable(table[i])
    /\ \E p \in Procs : Returned(p, "list") /\ ~response[p].ok /\ response[p].val = <<>>


\* The row's secret is an envelope that a store opened with another passphrase
\* sealed: it opens under a key that is not this store's.
SealedUnderOtherKey(row) ==
    \E passphrase \in Passphrases :
        LET other == KeyFromPassphrase(passphrase)
            envelope == decode_encrypted(row.password)
        IN  /\ other # encryption_key
            /\ envelope.ok
            /\ decrypt(envelope.val, other).ok

\* The row is as some store's save wrote it: an envelope sealed under the key
\* of one of the passphrases, and the other columns as save encodes them.
AsSaved(row) ==
    /\ \E passphrase \in Passphrases :
          LET envelope == decode_encrypted(row.password)
          IN  envelope.ok /\ decrypt(envelope.val, KeyFromPassphrase(passphrase)).ok
    /\ ~KindDefect(row) /\ ~SshDefect(row) /\ ~SslDefect(row)

\* C13: load of an id whose row a store with another key saved answers
\* StoreError::Encryption, and so does list when every row of the file is as
\* a store saved it; the commands that returned carry the same answer.  No
\* profile comes back for such a row, so none with a wrong secret.
C13_OtherKeyIsEncryptionError ==
    LET listed == ListNow
        saved == \A i \in DOMAIN table : AsSaved(table[i])
    IN  \A id \in Ids :
            (RowsWithId(table, id) # <<>> /\ SealedUnderOtherKey(RowsWithId(table, id)[1]))
            => /\ LoadNow(id) = Err("Encryption")
               /\ saved => listed = Err("Encryption")
               /\ \A p \in Procs :
                     /\ (Returned(p, "load") /\ request[p].id = id)
                           => response[p] = Err("Encryption")
                     /\ (Returned(p, "list") /\ saved)
                           => response[p] = Err("Encryption")

\* C13 witness: the file holds a row saved under this store's key and a row
\* saved under the other passphrase, and list returned the Encryption error.
C13_Witness ==
    /\ \A i \in DOMAIN table : AsSaved(table[i])
    /\ \E i \in DOMAIN table : SealedUnderOtherKey(table[i])
    /\ \E i \in DOMAIN table : ~SecretDefect(table[i])
    /\ \E p \in Procs : Returned(p, "list") /\ response[p] = Err("Encryption")


\* C14: decrypt answers EncryptionError::Decryption, and no text, when it is
\* handed fewer bytes than a nonce, an envelope sealed under a key other than
\* the one it is given, or an envelope one byte of which was changed.
C14_DecryptRejects ==
    (\/ decrypted.how = "short"
     \/ decrypted.how = "altered"
     \/ (decrypted.how \in {"returned", "stored"} /\ decrypted.key # test_key))
    => decrypted.res = Err("Decryption")

\* C14 witness: decrypt refused an envelope whose last byte, the end of the
\* tag, was changed.
C14_Witness ==
    /\ decrypted.how = "altered"
    /\ \E i \in DOMAIN encrypted :
          /\ Len(decrypted.data) = Len(encrypted[i].val)
          /\ SubSeq(decrypted.data, 1, Len(decrypted.data) - 1)
                = SubSeq(encrypted[i].val, 1, Len(decrypted.data) - 1)
          /\ decrypted.data # encrypted[i].val
    /\ decrypted.res = Err("Decryption")


\* C15: any two calls of encrypt with the same text and the same key returned
\* envelopes that differ.
C15_EnvelopesDiffer ==
    \A i, j \in DOMAIN encrypted :
        i # j => (/\ encrypted[i].ok
                  /\ encrypted[j].ok
                  /\ encrypted[i].val # encrypted[j].val)

\* C15 witness: encrypt was called twice with the same text and key, and the
\* second envelope, which is not the first, decrypts to the text.
C15_Witness ==
    /\ Len(encrypted) >= 2
    /\ encrypted[1].val # encrypted[2].val
    /\ decrypted.how = "returned"
    /\ decrypted.data = encrypted[2].val
    /\ decrypted.key = test_key
    /\ decrypted.res = Ok(test_plaintext)


\* C16: decrypt under the key of encrypt gives back the text encrypt was
\* handed, from the envelope as returned and from the envelope taken through
\* encode_encrypted and decode_encrypted; and decode_encrypted gives back the
\* bytes encode_encrypted was handed, for every envelope and every cut or
\* altered envelope.
C16_RoundTrip ==
    /\ (decrypted.how \in {"returned", "stored"} /\ decrypted.key = test_key)
          => decrypted.res = Ok(test_plaintext)
    /\ \A i \in DOMAIN encrypted :
          decode_encrypted(encode_encrypted(encrypted[i].val)) = Ok(encrypted[i].val)
    /\ decode_encrypted(encode_encrypted(decrypted.data)) = Ok(decrypted.data)

\* C16 witness: a text with a two-byte character came back from decrypt after
\* its envelope went through the storage encoding and back.
C16_Witness ==
    /\ test_plaintext = <<195, 169, 33>>
    /\ decrypted.how = "stored"
    /\ decrypted.key = test_key
    /\ decrypted.res = Ok(test_plaintext)


\* C17: every call of derive_key_from_password with a salt of at least 16
\* bytes succeeded with a key of 32 bytes; two calls with the same password and
\* salt returned the same key, and two calls with the same password and
\* different salts returned different keys.
C17_DerivesForEverySalt ==
    \A i \in DOMAIN derived :
        Len(derived[i].salt) >= MIN_SALT_SIZE
        => /\ derived[i].res.ok
           /\ Len(derived[i].res.val) = KEY_SIZE
           /\ \A j \in DOMAIN derived :
                 (/\ derived[j].password = derived[i].password
                  /\ Len(derived[j].salt) >= MIN_SALT_SIZE)
                 => ((derived[j].salt = derived[i].salt)
                        = (derived[j].res.val = derived[i].res.val))


OtherKindStrings == {"mysql", "postgresql", "MYSQL", "Postgres", "SQLite", ""}

\* What decoding the row answers under the store's key.
DecodedRow(row) == into_connection(RawConnectionRow(row), encryption_key)

\* C19: the kind that save writes for a variant parses back to that variant,
\* and a row whose secret opens decodes to the variant its kind column names;
\* any other kind string, the variant's name in another case included, makes
\* the row decode to StoreError::Serialization, never to a profile.
C19_KindRoundTrip ==
    /\ \A t \in DatabaseType :
          parse_database_type(DebugDatabaseType(t)) = [ok |-> TRUE, val |-> <<t>>, err |-> ""]
    /\ \A kind \in OtherKindStrings : parse_database_type(kind) = Err("Serialization")
    /\ \A i \in DOMAIN table :
          LET decoded == DecodedRow(table[i])
          IN  ~SecretDefect(table[i])
              => /\ KindDefect(table[i]) => decoded = Err("Serialization")
                 /\ \A t \in DatabaseType :
                       (table[i].db_type = DebugDatabaseType(t) /\ decoded.ok)
                           => decoded.val[1].db_type = t
    /\ \A p \in Procs :
          (/\ Returned(p, "load")
           /\ RowsWithId(table, request[p].id) # <<>>
           /\ ~SecretDefect(RowsWithId(table, request[p].id)[1])
           /\ KindDefect(RowsWithId(table, request[p].id)[1]))
          => response[p] = Err("Serialization")

\* C19 witness: load of a row whose kind column holds "postgresql", and whose
\* other columns are as saved, returned the Serialization error.
C19_Witness ==
    \E p \in Procs :
        /\ Returned(p, "load")
        /\ RowsWithId(table, request[p].id) # <<>>
        /\ LET row == RowsWithId(table, request[p].id)[1]
           IN  /\ row.db_type = "postgresql"
               /\ ~SecretDefect(row) /\ ~SshDefect(row) /\ ~SslDefect(row)
        /\ response[p] = Err("Serialization")

\* C20: a row whose secret column is no storage text, or holds an envelope
\* that does not open under the store's key, decodes to StoreError::Encryption;
\* a row whose secret opens and whose kind, ssh_config or ssl_config does not
\* decode, to StoreError::Serialization; every other row decodes to a profile.
\* A load that returned carries the same answer.
C20_DefectKinds ==
    /\ \A i \in DOMAIN table :
          LET decoded == DecodedRow(table[i])
              serial == KindDefect(table[i]) \/ SshDefect(table[i]) \/ SslDefect(table[i])
          IN  /\ SecretDefect(table[i]) => decoded = Err("Encryption")
              /\ (~SecretDefect(table[i]) /\ serial) => decoded = Err("Serialization")
              /\ (~SecretDefect(table[i]) /\ ~serial) => decoded.ok
    /\ \A p \in Procs :
          (Returned(p, "load") /\ RowsWithId(table, request[p].id) # <<>>)
          => /\ response[p] = DecodedRow(RowsWithId(table, request[p].id)[1])
             /\ response[p].err \in {"", "Encryption", "Serialization"}

\* C20 witness: load of a row whose only defect is its ssl_config text returned
\* the Serialization error, next to a row that decodes.
C20_Witness ==
    /\ \E i \in DOMAIN table : ~Undecodable(table[i])
    /\ \E p \in Procs :
          /\ Returned(p, "load")
          /\ RowsWithId(table, request[p].id) # <<>>
          /\ LET row == RowsWithId(table, request[p].id)[1]
             IN  /\ SslDefect(row)
                 /\ ~SecretDefect(row) /\ ~KindDefect(row) /\ ~SshDefect(row)
          /\ response[p] = Err("Serialization")


\* Every store opened on the file so far had the key of the one open now.
SameKeyEveryOpen ==
    \A i \in DOMAIN opened_with : KeyFromPassphrase(opened_with[i]) = encryption_key

\* The step in which ConnectionStore::new returns its store.
NewStep == ~store_open /\ store_open'

\* C21: while a store is open is_initialized() is true, whatever save, load,
\* list and delete calls were made; a table the file holds is never removed;
\* new on a file that holds the table leaves every row as it is, and when the
\* key is that of the stores before, load and list of the new store return
\* the profiles saved and not deleted before, unchanged.
C21_NewKeepsFile ==
    /\ [](store_open => is_initialized(has_table))
    /\ [][/\ has_table => has_table'
          /\ (NewStep /\ has_table) =>
                /\ table' = table
                /\ SameKeyEveryOpen' =>
                      /\ \A id \in Ids :
                            load_connection(table', encryption_key', id, TRUE).res
                                = Ok(lastSave[id])
                      /\ LET listed == list_connections(table', encryption_key', TRUE).res
                         IN  /\ listed.ok
                             /\ Len(listed.val) = Cardinality(LiveIds)
                             /\ \A id \in LiveIds :
                                   \E i \in DOMAIN listed.val :
                                       listed.val[i] = lastSave[id][1]]_vars

\* C21 witness: the second store on the file, opened with the passphrase of
\* the first, has loaded a profile saved with its SSH configuration, out of a
\* table of two rows.
C21_Witness ==
    /\ store_open
    /\ is_initialized(has_table)
    /\ Len(opened_with) = 2
    /\ opened_with[1] = opened_with[2]
    /\ Len(table) = 2
    /\ Returned(Caller, "load")
    /\ lastSave[request[Caller].id] # None
    /\ lastSave[request[Caller].id][1].ssh_config # None
    /\ response[Caller] = Ok(lastSave[request[Caller].id])

\* The text of the empty JSON object, held in a column.
EmptyObject == Some(<<>>)

\* C22: the row of a saved profile holds NULL in ssh_config exactly when the
\* profile has no SSH configuration, and likewise in ssl_config; neither
\* column ever holds an empty object; load answers a profile whose nested
\* configurations, absent or present, equal the saved ones, and so did every
\* load command that returned.
C22_AbsentIsNull ==
    /\ \A id \in LiveIds :
          LET saved == lastSave[id][1]
              row == RowsWithId(table, id)[1]
              loaded == LoadNow(id)
          IN  /\ (row.ssh_config = None) = (saved.ssh_config = None)
              /\ (row.ssl_config = None) = (saved.ssl_config = None)
              /\ row.ssh_config # EmptyObject
              /\ row.ssl_config # EmptyObject
              /\ loaded.ok
              /\ loaded.val[1].ssh_config = saved.ssh_config
              /\ loaded.val[1].ssl_config = saved.ssl_config
    /\ \A p \in Procs :
          (Returned(p, "load") /\ lastSave[request[p].id] # None)
              => /\ response[p].ok
                 /\ response[p].val[1].ssh_config = lastSave[request[p].id][1].ssh_config
                 /\ response[p].val[1].ssl_config = lastSave[request[p].id][1].ssl_config

\* C22 witness: the table holds a row with NULL in both columns, and a load
\* command returned a profile with an SSH configuration and no TLS one, from
\* a row with text in one column and NULL in the other.
C22_Witness ==
    /\ \E i \in DOMAIN table : table[i].ssh_config = None /\ table[i].ssl_config = None
    /\ \E p \in Procs :
          /\ Returned(p, "load")
          /\ response[p].ok
          /\ response[p].val # <<>>
          /\ response[p].val[1].ssh_config # None
          /\ response[p].val[1].ssl_config = None
          /\ RowsWithId(table, request[p].id)[1].ssh_config # None
          /\ RowsWithId(table, request[p].id)[1].ssl_config = None

\* Passphrases of 0, 29, 31, 32, 33 and 42 bytes.
PassphraseLengths ==
    NewPassphrases \cup
    {<<>>, TestPassphrase, SubSeq(LongPassphrase, 1, KEY_SIZE),
     SubSeq(LongPassphrase, 1, KEY_SIZE + 1)}

\* key is the passphrase cut to 32 bytes, or followed by zero bytes up to 32.
IsCutOrPadded(key, passphrase) ==
    /\ Len(key) = 32
    /\ \A i \in 1..32 :
          key[i] = IF i <= Len(passphrase) THEN passphrase[i] ELSE 0

\* C23: the key of an open store is 32 bytes, the passphrase new was given,
\* cut to its first 32 bytes or followed by zero bytes (so is the key made
\* from a passphrase of any length, 0, 32 and 33 bytes included), and no
\* step taken while the store stays open changes it.
C23_KeyCutOrPadded ==
    /\ [](/\ store_open =>
                IsCutOrPadded(encryption_key, opened_with[Len(opened_with)])
          /\ \A passphrase \in PassphraseLengths :
                IsCutOrPadded(KeyFromPassphrase(passphrase), passphrase))
    /\ [][(store_open /\ store_open') => encryption_key' = encryption_key]_vars

\* C23 witness: a store opened with the 42-byte passphrase, on a file first
\* opened with the 29-byte one, holds the 32-byte key and has run a save.
C23_Witness ==
    /\ store_open
    /\ opened_with = <<DefaultPassphrase, LongPassphrase>>
    /\ encryption_key = SubSeq(LongPassphrase, 1, 32)
    /\ Returned(Caller, "save")
    /\ response[Caller].ok

\* The sample profile a row of the file was written for.
ProfileOf(row) == CHOOSE c \in Connections : c.id = row.id /\ c.name = row.name

\* The rows whose port column holds no u16.
PortOutOfRange(row) == row.port < 0 \/ row.port > 65535

\* C24: every profile a load or list command returned has a port in
\* 0..65535, the port of the profile its row was written for; load of a row
\* whose port column is outside that range, and list while the table holds
\* such a row, fail with StoreError::Database and return no profile.
C24_PortIsU16 ==
    \A p \in Procs :
        /\ (pc[p] = "returned" /\ response[p].ok)
              => \A i \in DOMAIN response[p].val :
                    LET returned == response[p].val[i]
                        row == RowsWithId(table, returned.id)[1]
                    IN  /\ returned.port >= 0 /\ returned.port <= 65535
                        /\ returned.port = ProfileOf(row).port
        /\ (/\ Returned(p, "load")
            /\ RowsWithId(table, request[p].id) # <<>>
            /\ PortOutOfRange(RowsWithId(table, request[p].id)[1]))
              => response[p] = Err("Database")
        /\ (Returned(p, "list") /\ \E i \in DOMAIN table : PortOutOfRange(table[i]))
              => response[p] = Err("Database")

\* C24 witness: load of a row whose port column holds 68842 (3306 modulo
\* 2^16) returned the Database error, beside a row with port 65535.
C24_Witness ==
    /\ \E i \in DOMAIN table : table[i].port = 65535
    /\ \E p \in Procs :
          /\ Returned(p, "load")
          /\ RowsWithId(table, request[p].id) # <<>>
          /\ RowsWithId(table, request[p].id)[1].port = 68842
          /\ response[p] = Err("Database")

\* Invocation p has the result of test_connection.
Tested(p) == pc[p] = "answered" /\ request[p].op = "test_connection"

\* C25: test_connection answers the error "Host is required" when the
\* profile's host is empty, whatever the username; "Username is required"
\* when only the username is empty; and Ok otherwise.  The step in which it
\* runs takes no guard and leaves the table, the key and the mutex as they
\* are, also while another invocation holds the guard.
C25_TestConnectionValidates ==
    /\ [](\A p \in Procs :
            Tested(p) =>
                LET connection == request[p].connection[1]
                IN  /\ connection.host = "" => response[p] = Err("Host is required")
                    /\ (connection.host # "" /\ connection.username = "")
                          => response[p] = Err("Username is required")
                    /\ (connection.host # "" /\ connection.username # "")
                          => response[p].ok)
    /\ [][\A p \in Procs :
            (~Tested(p) /\ Tested(p)')
                => UNCHANGED <<table, encryption_key, mutex, rng, lastSave, has_table>>]_vars

\* C25 witness: test_connection answered "Host is required" for a profile
\* with neither host nor username, while a save held the guard of a store of
\* one row.
C25_Witness ==
    /\ Tested(RemoteCaller)
    /\ request[RemoteCaller].connection[1].host = ""
    /\ request[RemoteCaller].connection[1].username = ""
    /\ response[RemoteCaller] = Err("Host is required")
    /\ Len(table) = 1
    /\ \E p \in Procs : mutex = p /\ pc[p] = "locked" /\ request[p].op = "save"

\* The steps of decoding a row, in the order the claim gives.
StepOrder == <<"decode_encrypted", "decrypt", "parse_database_type", "ssh_config", "ssl_config">>

\* The row has the defect that the step rejects.
StepDefect(step, row) ==
    LET envelope == decode_encrypted(row.password)
    IN  IF step = "decode_encrypted" THEN ~envelope.ok
        ELSE IF step = "decrypt"
            THEN envelope.ok /\ ~decrypt(envelope.val, encryption_key).ok
        ELSE IF step = "parse_database_type" THEN KindDefect(row)
        ELSE IF step = "ssh_config" THEN SshDefect(row)
        ELSE SslDefect(row)

\* The StoreError a failure of the step is reported as.
StepKind(step) ==
    IF step = "" THEN ""
    ELSE IF step \in {"decode_encrypted", "decrypt"} THEN "Encryption"
    ELSE "Serialization"

\* The step at which decoding the row under the store's key fails.
FailsAt(row) == FailingStep(RawConnectionRow(row), encryption_key)

\* C26: a load that returned for a stored row carries the error of the first
\* step, in the order storage text, authentication, kind, ssh_config,
\* ssl_config, whose defect the row has, and no error when it has none: a row
\* with a secret that does not open and an unknown kind gives Encryption, not
\* Serialization.  A list that returned carries the error of that step of the
\* first row, in name order, that has a defect.
C26_FirstDefectReported ==
    \A p \in Procs :
        /\ (Returned(p, "load") /\ RowsWithId(table, request[p].id) # <<>>)
              => LET row == RowsWithId(table, request[p].id)[1]
                     step == FailsAt(row)
                     defect == [k \in DOMAIN StepOrder |-> StepDefect(StepOrder[k], row)]
                 IN  /\ (step = "") = (\A k \in DOMAIN StepOrder : ~defect[k])
                     /\ \A k \in DOMAIN StepOrder :
                           step = StepOrder[k]
                               => (defect[k] /\ \A j \in 1..(k - 1) : ~defect[j])
                     /\ response[p].err = StepKind(step)
                     /\ ((defect[1] \/ defect[2]) /\ defect[3])
                           => response[p] = Err("Encryption")
        /\ Returned(p, "list")
              => LET rows == SelectAllOrdered(table)
                     steps == [i \in DOMAIN rows |-> FailsAt(rows[i])]
                     failing == {i \in DOMAIN rows : steps[i] # ""}
                 IN  failing # {}
                        => \E i \in failing :
                              /\ \A j \in failing : i <= j
                              /\ response[p].err = StepKind(steps[i])

\* C26 witness: load of a row whose secret has a changed byte, whose kind is
\* unknown and whose ssl_config is malformed returned the Encryption error.
C26_Witness ==
    \E p \in Procs :
        /\ Returned(p, "load")
        /\ RowsWithId(table, request[p].id) # <<>>
        /\ LET row == RowsWithId(table, request[p].id)[1]
           IN  /\ StepDefect("decrypt", row)
               /\ row.db_type = "SQLite"
               /\ SslDefect(row)
               /\ FailsAt(row) = "decrypt"
        /\ response[p] = Err("Encryption")

\* The rows of tbl stored under the id, every column of each.
StoredUnder(tbl, id) == SelectSeq(tbl, LAMBDA row : row.id = id)

\* C27: the store call of a save or a delete leaves the rows of every other
\* id as they were, each column including the secret's storage text and
\* created_at, and the store call of a load or a list leaves the whole table
\* as it was.
C27_OtherRowsKept ==
    [][\A p \in Procs :
          /\ (CallStep(p, "save") \/ CallStep(p, "delete"))
                => \A id \in Ids \ {request[p].id} :
                      StoredUnder(table', id) = StoredUnder(table, id)
          /\ (CallStep(p, "load") \/ CallStep(p, "list")) => table' = table]_vars

\* C27 witness: a save has just written the second row of the table, behind
\* the row of another id.
C27_Witness ==
    \E p \in Procs :
        /\ Returned(p, "save")
        /\ response[p].ok
        /\ Len(table) = 2
        /\ table[2].id = request[p].id
        /\ table[1].id # request[p].id
        /\ table[1].password # table[2].password

\* Invocation p runs a remote command and is past the load of the profile:
\* it connects to or queries the remote server, or has its result.
PastLoad(p) == remote[p].active /\ pc[p] \in {"connecting", "answered"}

\* C28: an invocation of a remote command holds the guard of the store only
\* from its lock to the end of its load; while it connects to or queries the
\* remote server the guard is not its own: the guard is held only by an
\* invocation inside a call of the store, so a pending remote call leaves
\* it free for the save, load, list or delete of another invocation.
C28_NoLockWhileRemote ==
    \A p \in Procs :
        /\ (remote[p].active /\ mutex = p) => pc[p] \in {"locked", "returned"}
        /\ PastLoad(p) => mutex # p
        /\ mutex = p => pc[p] \in {"locked", "returned"}

\* C28 witness: while a remote command waits for the remote server with the
\* profile it loaded, a save of that profile's id holds the guard and has
\* replaced the row.
C28_Witness ==
    /\ pc[RemoteCaller] = "connecting"
    /\ remote[RemoteCaller].connection # None
    /\ \E q \in Procs \ {RemoteCaller} :
          /\ mutex = q
          /\ Returned(q, "save")
          /\ response[q].ok
          /\ request[q].id = remote[RemoteCaller].connection[1].id
          /\ request[q].connection # remote[RemoteCaller].connection

\* The result of a remote command for an id without a record.
ConnectionNotFound(id) ==
    [ok |-> FALSE, val |-> <<>>, err |-> "Connection not found: " \o id]

\* The step of invocation p from the end of its load to what follows it.
LoadedStep(p) == remote[p].active /\ pc[p] = "returned" /\ pc'[p] # "returned"

\* C29: a remote command whose id has no record (never saved, or deleted by
\* a delete that completed since its last save) returns
\* "Connection not found: <id>" from its load and goes on to no remote
\* connection: the store is the same from the command's lock to the end of
\* its load, and a command that connects holds the profile of a record.
C29_NotFoundNeverConnects ==
    /\ [](\A p \in Procs :
             pc[p] = "connecting"
                 => /\ remote[p].connection # None
                    /\ remote[p].connection[1].id = request[p].id)
    /\ [][\A p \in Procs :
             /\ (remote[p].active /\ mutex = p)
                   => (table' = table /\ lastSave' = lastSave)
             /\ (LoadedStep(p) /\ (lastSave[request[p].id] = None
                                     \/ StoredUnder(table, request[p].id) = <<>>))
                   => /\ lastSave[request[p].id] = None
                      /\ StoredUnder(table, request[p].id) = <<>>
                      /\ response'[p] = ConnectionNotFound(request[p].id)
                      /\ pc'[p] = "answered"
                      /\ remote'[p].connection = None
             /\ (remote[p].active /\ pc[p] = "answered" /\ remote[p].connection = None)
                   => pc'[p] \in {"answered", "idle"}]_vars

\* C29 witness: after a save, and with every saved record deleted again, a
\* remote command has returned "Connection not found: <id>".
C29_Witness ==
    /\ pc[RemoteCaller] = "answered"
    /\ remote[RemoteCaller].active
    /\ response[RemoteCaller] = ConnectionNotFound(request[RemoteCaller].id)
    /\ rng >= 1
    /\ table = <<>>
    /\ \A p \in Procs \ {RemoteCaller} : pc[p] = "idle"

\* A paginated read has been made and has reached its pagination.
Paginated ==
    /\ paging.call # "none"
    /\ paging.page # None
    /\ paging.page_size # None
    /\ paging.res # Err("Query error: ")

\* The statement that asks for at most limit rows from row offset on.
Requesting(limit, offset) ==
    Ok(<<paging.base \o " LIMIT " \o Display(limit) \o " OFFSET " \o Display(offset)>>)

\* The product of the read's page and page_size fits 32 bits.
ProductFits ==
    LET exact == ExactProduct(paging.page[1], paging.page_size[1])
    IN  \A k \in (U32_BYTES + 1)..Len(exact) : exact[k] = 0

\* C30: for every u32 page and page_size, a paginated read (execute_paginated,
\* get_table_data) sends its statement with LIMIT page_size and with
\* OFFSET page * page_size, the product as an integer.
C30_OffsetIsExactProduct ==
    Paginated
        => paging.res = Requesting(paging.page_size[1],
                                   ExactProduct(paging.page[1], paging.page_size[1]))

\* The reads whose product fits 32 bits send the exact product.
ExactWhereProductFits == (Paginated /\ ProductFits) => C30_OffsetIsExactProduct

\* The reads whose product does not fit: the panic of the multiplication
\* under overflow checks, else the product modulo 2^32 as the offset.
PanicsOrWrapsElse ==
    (Paginated /\ ~ProductFits)
        => IF paging.overflow_checks
               THEN paging.res = Err(MultiplyOverflow)
               ELSE /\ paging.res.ok
                    /\ paging.res # Requesting(paging.page_size[1],
                                               ExactProduct(paging.page[1],
                                                            paging.page_size[1]))

=============================================================================
